---- MODULE Spec2Model ----
(***************************************************************************)
(* Model of the alarm workspace: the rezz daemon (alarm Store, RTC wakeup  *)
(* register, suspend coordinator, event loop) and the client-side daemon   *)
(* loop of the alarm library.                                              *)
(*                                                                         *)
(* Instants (OffsetDateTime, SystemTime) are unix seconds.  An Option is a *)
(* sequence of length 0 (None) or 1 (Some).                                *)
(***************************************************************************)
EXTENDS Integers, Sequences, FiniteSets, TLC

VARIABLES
    alarms,         \* Store.alarms: Vec<Alarm>
    db,             \* content of the persisted file (Option of serialized list)
    alarms_changed, \* launch: the loop's watch receiver has an unseen change
    unseen,         \* sends on the watch channel since that receiver last
                    \* resolved (2: two or more)
    wait_alarm,     \* launch: monotonic deadline of the loop's sleep
    poll,           \* await_suspend: monotonic deadline of the fallback sleep
    logind,         \* launch: suspend_stream is Some
    inhibitor,      \* Rezz.inhibitor is Some (main loop's instance)
    rtc,            \* the RTC wakeup register (RtcWkalm)
    now,            \* index of the wall clock (CLOCK_REALTIME) in the time grid
    mono,           \* monotonic clock (seconds), stands still during suspend
    last,           \* the last thing that happened to the daemon, and its result
    signal,         \* client: an alarms-changed signal is pending on the stream
    c_alarms,       \* client: local snapshot (Alarms::daemon `alarms`)
    c_next,         \* client: `next_alarm` (Option<&Alarm>)
    c_pc,           \* client: position of Alarms::daemon ("off": not running)
    c_sleep,        \* client: monotonic deadline of the pending sleep
    rung,           \* client: how often each alarm id was rung (2: more than once)
    s_pc,           \* launch: the statement the loop is at ("select": it waits)
    suspend_stream, \* launch: what the PrepareForSleep stream has yet to yield
    lock,           \* Rezz.alarms: the RwLock of the Store (holders and waiters)
    calls,          \* the D-Bus method calls under way and where each one is
    t_pc,           \* sleep_until: position of the call
    t_target,       \* sleep_until: `target`
    t_clock,        \* sleep_until: CLOCK_REALTIME as the caller's process reads it
    t_remaining,    \* sleep_until: `remaining` of the current iteration
    t_timer,        \* sleep_until: `timer`, the expiry the kernel timer is armed for
    t_live,         \* kernel timers of the process that exist
    t_sig,          \* a SIGALRM the signal listener has not yet handed out
    t_made,         \* timers created so far (2: two or more)
    t_twice,        \* timer_delete was called on a timer that no longer exists
    t_fault         \* the system call of sleep_until that failed ("none": none)

daemonVars == << alarms, db, alarms_changed, unseen, wait_alarm, poll, logind,
                 inhibitor, rtc, now, mono, last, signal, c_alarms, c_next, c_pc,
                 c_sleep, rung, s_pc, suspend_stream, lock, calls >>

timerVars == << t_pc, t_target, t_clock, t_remaining, t_timer, t_live, t_sig,
                t_made, t_twice, t_fault >>

vars == << daemonVars, timerVars >>

rezzVars == << alarms, db, alarms_changed, unseen, wait_alarm, poll, logind, inhibitor,
               rtc, last >>

clientVars == << signal, c_alarms, c_next, c_pc, c_sleep, rung >>

lockVars == << lock, calls >>

loopVars == << s_pc, suspend_stream, lockVars >>

(***************************************************************************)
(* Bounds of the model.                                                    *)
(***************************************************************************)
\* Number of clock steps after the first instant.
MaxTick == 2

\* Capacity of the Store in the model.
MaxAlarms == 2

\* Number of steps (half seconds) of the clock that sleep_until reads.
MaxClock == 5

Ids == {"a", "b"}

\* The time grid: 1970-01-20T00:00:00Z and then every 21 days, 1 hour,
\* 1 minute and 1 second, so that the instants fall in different months, on
\* different days and at different times of day.
TimeAt(i) == 19 * 86400 + i * (21 * 86400 + 3661)

Step == TimeAt(1) - TimeAt(0)

Instants == { TimeAt(i) : i \in 0..MaxTick }

\* Ring durations offered to clients (three grid steps, one grid step).
RingChoices == { Step, 3 * Step }

Alarm(id, unix_time, ring_seconds) ==
    [id |-> id, unix_time |-> unix_time, ring_seconds |-> ring_seconds]

\* The alarms clients ask for: any id, any instant of the grid after its
\* first, any ring duration.
AlarmInputs ==
    { Alarm(id, TimeAt(i), r) : id \in Ids, i \in 1..MaxTick, r \in RingChoices }

None == << >>

Some(x) == << x >>

(***************************************************************************)
(* Calendar arithmetic of the `time` crate (proleptic Gregorian, UTC).     *)
(***************************************************************************)
IsLeap(y) == (y % 4 = 0) /\ ((y % 100 # 0) \/ (y % 400 = 0))

DaysInMonth(y, m) ==
    IF m = 2 THEN (IF IsLeap(y) THEN 29 ELSE 28)
    ELSE IF m \in {4, 6, 9, 11} THEN 30 ELSE 31

\* Days since 1970-01-01 of the calendar date y-m-d (m in 1..12).
DaysFromCivil(y, m, d) ==
    LET y2  == IF m <= 2 THEN y - 1 ELSE y
        era == y2 \div 400
        yoe == y2 - era * 400
        mp  == IF m > 2 THEN m - 3 ELSE m + 9
        doy == (153 * mp + 2) \div 5 + d - 1
        doe == yoe * 365 + yoe \div 4 - yoe \div 100 + doy
    IN  era * 146097 + doe - 719468

\* Calendar date of the day z days after 1970-01-01.
CivilFromDays(z) ==
    LET z2  == z + 719468
        era == z2 \div 146097
        doe == z2 - era * 146097
        yoe == (doe - doe \div 1460 + doe \div 36524 - doe \div 146096) \div 365
        doy == doe - (365 * yoe + yoe \div 4 - yoe \div 100)
        mp  == (5 * doy + 2) \div 153
        d   == doy - (153 * mp + 2) \div 5 + 1
        m   == IF mp < 10 THEN mp + 3 ELSE mp - 9
        y   == yoe + era * 400 + (IF m <= 2 THEN 1 ELSE 0)
    IN  [year |-> y, month |-> m, day |-> d]

(***************************************************************************)
(* rezz/src/ioctl.rs: the register record and its conversions.             *)
(***************************************************************************)
RtcTime(sec, min, hour, mday, mon, year) ==
    [tm_sec |-> sec, tm_min |-> min, tm_hour |-> hour,
     tm_mday |-> mday, tm_mon |-> mon, tm_year |-> year]

\* The disabled record written by clear_wakeup: 1970-01-01T00:00Z.
RESET_ALARM ==
    [enabled |-> FALSE, pending |-> FALSE, time |-> RtcTime(0, 0, 0, 1, 0, 70)]

\* impl From<OffsetDateTime> for RtcTime: the UTC calendar fields of t.
RtcTimeFrom(t) ==
    LET date == CivilFromDays(t \div 86400)
        secs == t % 86400
    IN  RtcTime(secs % 60, (secs \div 60) % 60, secs \div 3600,
                date.day, date.month - 1, date.year - 1900)

\* impl From<OffsetDateTime> for RtcWkalm.
RtcWkalmFrom(t) == [enabled |-> TRUE, pending |-> FALSE, time |-> RtcTimeFrom(t)]

\* u8::try_from succeeds.
IsU8(n) == n \in 0..255

\* impl TryFrom<RtcTime> for OffsetDateTime: the month is Month::try_from of
\* tm_mon (1 is January) and the day is read from tm_mon as well; None stands
\* for the Err result.
OffsetDateTimeTryFrom(time) ==
    LET month == time.tm_mon
        day   == time.tm_mon
        year  == time.tm_year + 1900
    IN  IF /\ IsU8(time.tm_mon) /\ month \in 1..12
           /\ IsU8(time.tm_hour) /\ IsU8(time.tm_min) /\ IsU8(time.tm_sec)
           /\ day \in 1..DaysInMonth(year, month)
           /\ time.tm_hour < 24 /\ time.tm_min < 60 /\ time.tm_sec < 60
        THEN Some(DaysFromCivil(year, month, day) * 86400
                  + time.tm_hour * 3600 + time.tm_min * 60 + time.tm_sec)
        ELSE None

\* impl From<RtcWkalm> for Option<OffsetDateTime>.
WakeupFrom(wkalm) ==
    IF wkalm.enabled THEN OffsetDateTimeTryFrom(wkalm.time) ELSE None

\* The instant the hardware wakes at: the register's fields read as the UTC
\* calendar date and time they are written as (tm_mon counts from 0).
StagedInstant(wkalm) ==
    DaysFromCivil(wkalm.time.tm_year + 1900, wkalm.time.tm_mon + 1,
                  wkalm.time.tm_mday) * 86400
    + wkalm.time.tm_hour * 3600 + wkalm.time.tm_min * 60 + wkalm.time.tm_sec

(***************************************************************************)
(* rezz/src/lib.rs: access to the register.  `ok` says whether opening the *)
(* device and the ioctl succeed.                                           *)
(***************************************************************************)
\* get_wakeup: Ok(Option<OffsetDateTime>) or Err.
get_wakeup(reg, ok) ==
    IF ok THEN [ok |-> TRUE, wakeup |-> WakeupFrom(reg)]
    ELSE [ok |-> FALSE, wakeup |-> None]

\* set_wakeup: the register after the call.
set_wakeup(reg, time, ok) == IF ok THEN RtcWkalmFrom(time) ELSE reg

\* clear_wakeup that writes the record back with the interrupt left enabled.
clear_wakeup_enabled(reg, ok) == IF ok THEN [reg EXCEPT !.pending = FALSE] ELSE reg

\* clear_wakeup: the register after the call.
clear_wakeup(reg, ok) == IF ok THEN RESET_ALARM ELSE reg

(***************************************************************************)
(* rezz/src/dbus.rs: the Store.                                            *)
(***************************************************************************)
\* unix_now: the wall clock in whole seconds.
unix_now(tick) == TimeAt(tick)

\* serde_json::to_string of the alarm list: one [id, unix_time, ring_seconds]
\* entry per alarm, in the order of the Vec.
to_string(als) ==
    [i \in 1..Len(als) |-> << als[i].id, als[i].unix_time, als[i].ring_seconds >>]

\* File contents that are not a serialized alarm list: text that is not the
\* JSON of a list of alarms, and bytes that are not UTF-8.  None is the empty
\* file (a missing file is created empty by Store::new).
Malformed == Some(<< << "{" >> >>)

NotText == Some(<< << "xff" >> >>)

\* serde_json::from_str(..).unwrap_or_default(): an empty or unparsable text
\* gives the empty list.
from_str(content) ==
    IF content = None THEN << >>
    ELSE IF \E i \in 1..Len(content[1]) : Len(content[1][i]) # 3 THEN << >>
    ELSE [i \in 1..Len(content[1]) |->
            Alarm(content[1][i][1], content[1][i][2], content[1][i][3])]

\* Store::new on a file with the given content: read_to_string fails on
\* bytes that are not UTF-8 and `?` returns the error; otherwise the list
\* parsed from the text.
Store_new(content) ==
    IF content = NotText THEN [ok |-> FALSE, alarms |-> << >>]
    ELSE [ok |-> TRUE, alarms |-> from_str(content)]

\* Outcomes of the file rewrite in sync: it succeeds, set_len fails (the file
\* keeps its content), or rewind/write_all fails after the truncation.
SyncOutcomes == {"ok", "set_len_failed", "write_failed"}

\* sync that writes at the end of the file instead of truncating it.
sync_append(file, als, w) ==
    CASE w = "ok" -> Some((IF file = None THEN << >> ELSE file[1]) \o to_string(als))
      [] w = "set_len_failed" -> file
      [] w = "write_failed" -> None

\* Store::sync, the file part: the content of the file after the call.
sync(file, als, w) ==
    CASE w = "ok" -> Some(to_string(als))
      [] w = "set_len_failed" -> file
      [] w = "write_failed" -> None

\* watch::Sender::send, seen from one receiver: k more versions it has not
\* seen (2 stands for two or more).
Sent(u, k) == IF u + k >= 2 THEN 2 ELSE u + k

\* Vec::remove(i).
RemoveAt(s, i) == SubSeq(s, 1, i - 1) \o SubSeq(s, i + 1, Len(s))

\* Store::upcoming: min_by_key(unix_time), the first of equal minima.
upcoming(als) ==
    IF als = << >> THEN None
    ELSE LET i == CHOOSE i \in 1..Len(als) :
                    \A j \in 1..Len(als) :
                        /\ als[i].unix_time <= als[j].unix_time
                        /\ (j < i => als[j].unix_time > als[i].unix_time)
         IN  Some(als[i])

\* add without the check for an existing id.
add_unchecked(als, alarm) ==
    [alarms |-> Append(als, alarm), ret |-> TRUE, synced |-> TRUE]

\* add that overwrites the record of an existing id.
add_overwrite(als, alarm) ==
    IF \E i \in 1..Len(als) : als[i].id = alarm.id
    THEN [alarms |-> [i \in 1..Len(als) |->
                        IF als[i].id = alarm.id THEN alarm ELSE als[i]],
          ret |-> TRUE, synced |-> TRUE]
    ELSE [alarms |-> Append(als, alarm), ret |-> TRUE, synced |-> TRUE]

\* Store::add: the new list, the returned bool, and whether sync was called.
add(als, alarm) ==
    IF \E i \in 1..Len(als) : als[i].id = alarm.id
    THEN [alarms |-> als, ret |-> FALSE, synced |-> FALSE]
    ELSE [alarms |-> Append(als, alarm), ret |-> TRUE, synced |-> TRUE]

\* remove that takes out the last alarm instead of the matching one.
remove_last(als, id) ==
    IF \E i \in 1..Len(als) : als[i].id = id
    THEN [alarms |-> RemoveAt(als, Len(als)), removed |-> Some(als[Len(als)]),
          synced |-> TRUE]
    ELSE [alarms |-> als, removed |-> None, synced |-> FALSE]

\* Store::remove: the new list, the returned Option<Alarm>, and whether sync
\* was called.
remove(als, id) ==
    IF \E i \in 1..Len(als) : als[i].id = id
    THEN LET matching == CHOOSE i \in 1..Len(als) :
                            /\ als[i].id = id
                            /\ \A j \in 1..(i - 1) : als[j].id # id
         IN  [alarms |-> RemoveAt(als, matching), removed |-> Some(als[matching]),
              synced |-> TRUE]
    ELSE [alarms |-> als, removed |-> None, synced |-> FALSE]

\* The retain predicate with >= for >.
NotElapsed_inclusive(alarm, tick) ==
    alarm.unix_time + alarm.ring_seconds >= unix_now(tick)

\* The retain predicate of remove_elapsed.
NotElapsed(alarm, tick) == alarm.unix_time + alarm.ring_seconds > unix_now(tick)

\* remove_elapsed that takes out the first elapsed alarm only.
remove_elapsed_one(als, tick) ==
    LET gone == { i \in 1..Len(als) : ~NotElapsed(als[i], tick) } IN
    IF gone = {} THEN [alarms |-> als, count |-> 0, synced |-> FALSE]
    ELSE [alarms |-> RemoveAt(als, CHOOSE i \in gone : \A j \in gone : i <= j),
          count |-> 1, synced |-> TRUE]

\* Store::remove_elapsed: the new list, the returned count, and whether sync
\* was called.
remove_elapsed(als, tick) ==
    LET keep(alarm) == NotElapsed(alarm, tick)
        kept == SelectSeq(als, keep)
        removed_count == Len(als) - Len(kept)
    IN  [alarms |-> kept, count |-> removed_count, synced |-> removed_count > 0]

(***************************************************************************)
(* rezz/src/dbus.rs: the coordinator.  An access to /dev/rtc succeeds or   *)
(* fails; a set H of booleans lists the outcomes the device allows.        *)
(***************************************************************************)
Faults == BOOLEAN

NoFaults == {TRUE}

\* Rezz::schedule_nearest: the register after the call, and whether an
\* error was logged.  rd and wr say whether get_wakeup and set_wakeup
\* succeed.
schedule_nearest(als, reg, tick, rd, wr) ==
    LET next_alarm == upcoming(als) IN
    IF next_alarm = None THEN [rtc |-> reg, failed |-> FALSE]
    ELSE LET wakeup == get_wakeup(reg, rd).wakeup
             current_time == unix_now(tick)
             time == next_alarm[1].unix_time
         IN  IF wakeup # None /\ wakeup[1] > current_time /\ time >= wakeup[1]
             THEN [rtc |-> reg, failed |-> ~rd]
             ELSE [rtc |-> set_wakeup(reg, time, wr), failed |-> ~rd \/ ~wr]

\* What a call returned: its name, the result, the alarms a Store call took
\* out, the count of remove_elapsed, and the number of sync calls it made.
Last(op, ret, removed, count, synced) ==
    [op |-> op, ret |-> ret, removed |-> removed, count |-> count, synced |-> synced]

\* Rezz::add_alarm (the D-Bus method).
add_alarm(alarm, H, w) ==
    LET r == add(alarms, alarm) IN
    /\ r.ret => Len(alarms) < MaxAlarms
    /\ IF ~r.ret
       THEN /\ last' = Last("add_alarm", "already_exists", << >>, 0, 0)
            /\ UNCHANGED << alarms, db, alarms_changed, unseen, rtc >>
       ELSE /\ alarms' = r.alarms
            /\ db' = sync(db, r.alarms, w)
            /\ alarms_changed' = TRUE
            /\ unseen' = Sent(unseen, 1)
            /\ rtc' \in { schedule_nearest(r.alarms, rtc, now, rd, wr).rtc :
                            rd \in H, wr \in H }
            /\ last' = Last("add_alarm", "ok", << >>, 0, 1)
    /\ UNCHANGED << wait_alarm, poll, logind, inhibitor, now, mono >>
    /\ UNCHANGED clientVars
    /\ UNCHANGED timerVars
    /\ UNCHANGED loopVars

\* Lines 281-307 of remove_alarm, after `removed` was taken out of the Store:
\* the register after the call and the result of the method.  rd, clr, rd2
\* and wr say whether get_wakeup, clear_wakeup and the two accesses of
\* schedule_nearest succeed.
remove_staged(als, removed, reg, tick, rd, clr, rd2, wr) ==
    LET got == get_wakeup(reg, rd) IN
    IF ~got.ok THEN [rtc |-> reg, ret |-> "failed"]
    ELSE IF got.wakeup = None THEN [rtc |-> reg, ret |-> "ok"]
    ELSE IF removed.unix_time # got.wakeup[1] THEN [rtc |-> reg, ret |-> "ok"]
    ELSE [rtc |-> schedule_nearest(als, clear_wakeup(reg, clr), tick, rd2, wr).rtc,
          ret |-> "ok"]

\* Rezz::remove_alarm (the D-Bus method).
remove_alarm(id, H, w) ==
    LET r == remove(alarms, id) IN
    /\ IF r.removed = None
       THEN /\ last' = Last("remove_alarm", "not_found", << >>, 0, 0)
            /\ UNCHANGED << alarms, db, alarms_changed, unseen, rtc >>
       ELSE /\ alarms' = r.alarms
            /\ db' = sync(db, r.alarms, w)
            /\ alarms_changed' = TRUE
            /\ unseen' = Sent(unseen, 1)
            /\ \E o \in { remove_staged(r.alarms, r.removed[1], rtc, now,
                                        rd, clr, rd2, wr) :
                            rd \in H, clr \in H, rd2 \in H, wr \in H } :
                    /\ rtc' = o.rtc
                    /\ last' = Last("remove_alarm", o.ret, << >>, 0, 1)
    /\ UNCHANGED << wait_alarm, poll, logind, inhibitor, now, mono >>
    /\ UNCHANGED clientVars
    /\ UNCHANGED timerVars
    /\ UNCHANGED loopVars

(***************************************************************************)
(* rezz/src/dbus.rs: launch, the event loop.  Each action is one iteration *)
(* of the loop: the select branch that fired, then remove_elapsed and the  *)
(* re-arming of the sleep.                                                 *)
(***************************************************************************)
\* Update frequency on systems without logind (seconds).
MANUAL_UPDATE_INTERVAL == 60 * 5

\* The sleep armed at the end of an iteration: its monotonic deadline, or
\* None for a sleep that does not end within the time grid: sleep(INFINITY),
\* and the sleep of `seconds as u64` seconds when seconds is negative (more
\* than 2^63 seconds).
ArmWait(als, tick, m) ==
    LET next_alarm == upcoming(als) IN
    IF next_alarm = None THEN None
    ELSE LET alarm_end == next_alarm[1].unix_time + next_alarm[1].ring_seconds
             seconds == alarm_end - unix_now(tick)
         IN  IF seconds < 0 THEN None ELSE Some(m + seconds)

\* Lines 91-103 of launch, run after the branch left the Store as als1, the
\* file as db1 and the receiver as changed1; n counts the sync calls so far.
\* remove_elapsed reads the clock at the present tick; unix_now() of line 99
\* and the sleeps armed for the next select read the clocks as tick2 and m2.
LoopTailAt(op, ret, als1, db1, changed1, n, w, tick2, m2) ==
    LET e == remove_elapsed(als1, now) IN
    /\ alarms' = e.alarms
    /\ db' = IF e.synced THEN sync(db1, e.alarms, w) ELSE db1
    /\ alarms_changed' = (changed1 \/ e.synced)
    /\ unseen' = Sent(IF op = "alarms_changed" THEN 0 ELSE unseen,
                      n + (IF e.synced THEN 1 ELSE 0))
    /\ wait_alarm' = ArmWait(e.alarms, tick2, m2)
    /\ poll' = IF logind THEN poll ELSE m2 + MANUAL_UPDATE_INTERVAL
    /\ last' = Last(op, ret, << >>, e.count, n + (IF e.synced THEN 1 ELSE 0))

\* The same when no time passes within the iteration.
LoopTail(op, ret, als1, db1, changed1, n, w) ==
    LoopTailAt(op, ret, als1, db1, changed1, n, w, now, mono)

\* The alarms_changed branch with an await_suspend whose dropped future has
\* taken a message off the stream.
LoopAlarmsChanged_drops(w) ==
    /\ alarms_changed
    /\ signal' = IF c_pc = "off" THEN signal ELSE Some(alarms)
    /\ LoopTail("alarms_changed", "none", alarms, db, FALSE, 0, w)
    /\ suspend_stream' = IF suspend_stream = << >> THEN suspend_stream
                         ELSE Tail(suspend_stream)
    /\ UNCHANGED << logind, inhibitor, rtc, now, mono >>
    /\ UNCHANGED << c_alarms, c_next, c_pc, c_sleep, rung >>
    /\ UNCHANGED timerVars
    /\ UNCHANGED << s_pc, lockVars >>

\* alarms_changed.changed(): signal the change to the D-Bus clients.  The
\* PropertiesChanged signal carries the alarm list read at that moment.
LoopAlarmsChanged(w) ==
    /\ alarms_changed
    /\ signal' = IF c_pc = "off" THEN signal ELSE Some(alarms)
    /\ LoopTail("alarms_changed", "none", alarms, db, FALSE, 0, w)
    /\ UNCHANGED << logind, inhibitor, rtc, now, mono >>
    /\ UNCHANGED << c_alarms, c_next, c_pc, c_sleep, rung >>
    /\ UNCHANGED timerVars
    /\ UNCHANGED loopVars

\* wait_alarm: the sleep ended.
LoopWaitExpired(w) ==
    /\ wait_alarm # None
    /\ mono >= wait_alarm[1]
    /\ LoopTail("wait_alarm", "none", alarms, db, alarms_changed, 0, w)
    /\ UNCHANGED << logind, inhibitor, rtc, now, mono >>
    /\ UNCHANGED clientVars
    /\ UNCHANGED timerVars
    /\ UNCHANGED loopVars

\* await_suspend returned true (a suspend-prepare event, an undecodable
\* event, the end of the stream, or the fallback sleep without logind):
\* Rezz::on_suspend, then the tail of the iteration.
LoopSuspend(H, w1, w2) ==
    /\ logind \/ mono >= poll
    /\ LET e == remove_elapsed(alarms, now)
           db1 == IF e.synced THEN sync(db, e.alarms, w1) ELSE db
       IN  \E o \in { schedule_nearest(e.alarms, rtc, now, rd, wr) :
                        rd \in H, wr \in H } :
                /\ rtc' = o.rtc
                /\ inhibitor' = FALSE
                /\ LoopTail("on_suspend", IF o.failed THEN "rtc_failed" ELSE "ok",
                            e.alarms, db1, alarms_changed \/ e.synced,
                            IF e.synced THEN 1 ELSE 0, w2)
    /\ UNCHANGED << logind, now, mono >>
    /\ UNCHANGED clientVars
    /\ UNCHANGED timerVars
    /\ UNCHANGED loopVars

\* The resume branch with an add_logind_inhibitor that clears the field when
\* inhibit fails.
LoopResume_clears(acquired, w) ==
    /\ logind
    /\ inhibitor' = acquired
    /\ LoopTail("add_logind_inhibitor", IF acquired THEN "ok" ELSE "inhibit_failed",
                alarms, db, alarms_changed, 0, w)
    /\ UNCHANGED << logind, rtc, now, mono >>
    /\ UNCHANGED clientVars
    /\ UNCHANGED timerVars
    /\ UNCHANGED loopVars

\* await_suspend returned false (resume): Rezz::add_logind_inhibitor, which
\* keeps the old value of the field when inhibit fails.
LoopResume(acquired, w) ==
    /\ logind
    /\ inhibitor' = IF acquired THEN TRUE ELSE inhibitor
    /\ LoopTail("add_logind_inhibitor", IF acquired THEN "ok" ELSE "inhibit_failed",
                alarms, db, alarms_changed, 0, w)
    /\ UNCHANGED << logind, rtc, now, mono >>
    /\ UNCHANGED clientVars
    /\ UNCHANGED timerVars
    /\ UNCHANGED loopVars

(***************************************************************************)
(* The environment: the clocks and other writers of the register.          *)
(***************************************************************************)
\* Time passes while the machine runs: both clocks advance.
Tick ==
    /\ now < MaxTick
    /\ now' = now + 1
    /\ mono' = mono + Step
    /\ last' = Last("clock", "none", << >>, 0, 0)
    /\ UNCHANGED << alarms, db, alarms_changed, unseen, wait_alarm, poll, logind,
                    inhibitor, rtc >>
    /\ UNCHANGED clientVars
    /\ UNCHANGED timerVars
    /\ UNCHANGED loopVars

\* Time passes while the machine is suspended (no inhibitor lease is held):
\* only the wall clock advances.
Suspended ==
    /\ ~inhibitor
    /\ now < MaxTick
    /\ now' = now + 1
    /\ mono' = mono
    /\ last' = Last("clock", "none", << >>, 0, 0)
    /\ UNCHANGED << alarms, db, alarms_changed, unseen, wait_alarm, poll, logind,
                    inhibitor, rtc >>
    /\ UNCHANGED clientVars
    /\ UNCHANGED timerVars
    /\ UNCHANGED loopVars

\* Another program stages a wakeup (RTC_WKALM_SET on /dev/rtc).
ThirdPartySetWakeup(t) ==
    /\ rtc' = RtcWkalmFrom(t)
    /\ last' = Last("third_party", "none", << >>, 0, 0)
    /\ UNCHANGED << alarms, db, alarms_changed, unseen, wait_alarm, poll, logind,
                    inhibitor, now, mono >>
    /\ UNCHANGED clientVars
    /\ UNCHANGED timerVars
    /\ UNCHANGED loopVars

(***************************************************************************)
(* src/lib.rs: Alarms::daemon, the client-side loop.                       *)
(***************************************************************************)
\* sort_by(unix_time), a stable sort.
RECURSIVE SortByTime(_)
SortByTime(s) ==
    IF Len(s) <= 1 THEN s
    ELSE LET rest == SortByTime(SubSeq(s, 1, Len(s) - 1))
             x == s[Len(s)]
             k == Cardinality({ i \in 1..Len(rest) : rest[i].unix_time <= x.unix_time })
         IN  SubSeq(rest, 1, k) \o << x >> \o SubSeq(rest, k + 1, Len(rest))

\* next_alarm that returns the first alarm of the sorted slice, elapsed or
\* not.
next_alarm_first(als, tick) ==
    LET sorted == SortByTime(als)
    IN  [alarms |-> sorted,
         next |-> IF sorted = << >> THEN None ELSE Some(sorted[1])]

\* Alarms::next_alarm: sorts the slice and returns the first alarm whose
\* unix_time is after the current second.
next_alarm(als, tick) ==
    LET sorted == SortByTime(als)
        later == { i \in 1..Len(sorted) : sorted[i].unix_time > unix_now(tick) }
    IN  [alarms |-> sorted,
         next |-> IF later = {} THEN None
                  ELSE Some(sorted[CHOOSE i \in later : \A j \in later : i <= j])]

\* Alarms::wait_alarm: the deadline of the tokio sleep (tokio's Instant is
\* the monotonic clock); an hour without alarm.
Alarms_wait_alarm(alarm, tick, m) ==
    IF alarm = None THEN m + 60 * 60
    ELSE m + (alarm[1].unix_time - unix_now(tick))

Bump(counts, id) == [counts EXCEPT ![id] = IF @ < 2 THEN @ + 1 ELSE 2]

\* Line 54 and the next select: recompute next_alarm and arm the sleep.
ClientRearm(snapshot) ==
    LET n == next_alarm(snapshot, now) IN
    /\ c_alarms' = n.alarms
    /\ c_next' = n.next
    /\ c_sleep' = Alarms_wait_alarm(n.next, now, mono)
    /\ c_pc' = "select"

\* alarms_stream.next(): take over the new list if it can be read.
ClientAlarmsChanged(readable) ==
    /\ c_pc = "select"
    /\ signal # None
    /\ signal' = None
    /\ ClientRearm(IF readable THEN signal[1] ELSE c_alarms)
    /\ UNCHANGED rung
    /\ UNCHANGED rezzVars
    /\ UNCHANGED << now, mono >>
    /\ UNCHANGED timerVars
    /\ UNCHANGED loopVars

\* The sleep of wait_alarm ended: ring_alarm starts playing and sleeps for
\* ring_seconds; when AlarmSound::play fails or there is no alarm the loop
\* goes on at once.
ClientWaitFired(played) ==
    /\ c_pc = "select"
    /\ mono >= c_sleep
    /\ IF c_next # None /\ played
       THEN /\ c_pc' = "ringing"
            /\ c_sleep' = mono + c_next[1].ring_seconds
            /\ rung' = Bump(rung, c_next[1].id)
            /\ UNCHANGED << c_alarms, c_next >>
       ELSE /\ ClientRearm(c_alarms)
            /\ UNCHANGED rung
    /\ UNCHANGED signal
    /\ UNCHANGED rezzVars
    /\ UNCHANGED << now, mono >>
    /\ UNCHANGED timerVars
    /\ UNCHANGED loopVars

\* A ring path that takes the rung alarm out of the Store when the sound
\* stops.
ClientRingDone_removes ==
    /\ c_pc = "ringing"
    /\ mono >= c_sleep
    /\ ClientRearm(c_alarms)
    /\ alarms' = remove(alarms, c_next[1].id).alarms
    /\ UNCHANGED << signal, rung >>
    /\ UNCHANGED << db, alarms_changed, unseen, wait_alarm, poll, logind, inhibitor,
                    rtc, last >>
    /\ UNCHANGED << now, mono >>
    /\ UNCHANGED timerVars
    /\ UNCHANGED loopVars

\* The sleep of ring_alarm ended: stop the sound, next iteration.
ClientRingDone ==
    /\ c_pc = "ringing"
    /\ mono >= c_sleep
    /\ ClientRearm(c_alarms)
    /\ UNCHANGED << signal, rung >>
    /\ UNCHANGED rezzVars
    /\ UNCHANGED << now, mono >>
    /\ UNCHANGED timerVars
    /\ UNCHANGED loopVars

(***************************************************************************)
(* src/timer.rs: sleep_until and its kernel timer.  SystemTime and the     *)
(* timespec are counted in half seconds from the moment of the call, so    *)
(* that Duration::as_secs has something to cut off.                        *)
(***************************************************************************)
\* Duration::as_secs: whole seconds of a duration given in half seconds.
as_secs(d) == d \div 2

\* `time.tv_sec += seconds`: a timespec moved by whole seconds.
AddSecs(time, seconds) == time + 2 * seconds

\* The targets callers pass: before the call, at the call, and after it by
\* whole and by half seconds.
Targets == (0 - 2)..(MaxClock - 1)

\* remove_timer: timer_delete succeeds (deleted) on a timer that exists;
\* the result, the kernel timers left, and whether the call was made on a
\* timer that no longer exists.
remove_timer(live, deleted) ==
    IF live > 0 /\ deleted
    THEN [ok |-> TRUE, live |-> live - 1, twice |-> FALSE]
    ELSE [ok |-> FALSE, live |-> live, twice |-> live = 0]

\* add_timer that returns the timer although timer_settime failed.
add_timer_unarmed(seconds, clock, live, got, created, armed, deleted) ==
    IF ~got THEN [ok |-> FALSE, timer |-> None, live |-> live, made |-> 0,
                  fault |-> "clock", twice |-> FALSE]
    ELSE IF ~created THEN [ok |-> FALSE, timer |-> None, live |-> live, made |-> 0,
                           fault |-> "create", twice |-> FALSE]
    ELSE [ok |-> TRUE, timer |-> IF armed THEN Some(AddSecs(clock, seconds)) ELSE None,
          live |-> live + 1, made |-> 1,
          fault |-> IF armed THEN "none" ELSE "arm", twice |-> FALSE]

\* add_timer(seconds) at the time `clock`: got, created, armed and deleted
\* say whether clock_gettime, timer_create, timer_settime and the
\* timer_delete of the failure path succeed.
add_timer(seconds, clock, live, got, created, armed, deleted) ==
    IF ~got THEN [ok |-> FALSE, timer |-> None, live |-> live, made |-> 0,
                  fault |-> "clock", twice |-> FALSE]
    ELSE IF ~created THEN [ok |-> FALSE, timer |-> None, live |-> live, made |-> 0,
                           fault |-> "create", twice |-> FALSE]
    ELSE IF ~armed
    THEN LET r == remove_timer(live + 1, deleted) IN
         [ok |-> FALSE, timer |-> None, live |-> r.live, made |-> 1,
          fault |-> IF r.ok THEN "arm" ELSE "delete", twice |-> r.twice]
    ELSE [ok |-> TRUE, timer |-> Some(AddSecs(clock, seconds)), live |-> live + 1,
          made |-> 1, fault |-> "none", twice |-> FALSE]

\* sleep_until that arms a timer for the target before it asks for the
\* listener.
SleepRegister_armed(registered) ==
    /\ t_pc = "start"
    /\ t_pc' = IF registered THEN "await" ELSE "err"
    /\ t_fault' = IF registered THEN "none" ELSE "signal"
    /\ t_timer' = Some(t_target)
    /\ t_live' = t_live + 1
    /\ t_made' = 1
    /\ UNCHANGED << t_target, t_clock, t_remaining, t_sig, t_twice >>
    /\ UNCHANGED daemonVars

\* Line 85: signal(SignalKind::alarm())?.
SleepRegister(registered) ==
    /\ t_pc = "start"
    /\ t_pc' = IF registered THEN "loop" ELSE "err"
    /\ t_fault' = IF registered THEN "none" ELSE "signal"
    /\ UNCHANGED << t_target, t_clock, t_remaining, t_timer, t_live, t_sig,
                    t_made, t_twice >>
    /\ UNCHANGED daemonVars

\* The top of the loop with the test of lines 89-92 turned round: it returns
\* while the target is still ahead.
SleepCheck_early ==
    /\ t_pc = "loop"
    /\ IF t_target > t_clock
       THEN /\ t_pc' = "ok"
            /\ UNCHANGED t_remaining
       ELSE /\ t_pc' = "arm"
            /\ t_remaining' = 0
    /\ UNCHANGED << t_target, t_clock, t_timer, t_live, t_sig, t_made, t_twice,
                    t_fault >>
    /\ UNCHANGED daemonVars

\* Lines 88-92: SystemTime::now() and target.duration_since(now), which is
\* Err when now is later than target.
SleepCheck ==
    /\ t_pc = "loop"
    /\ IF t_clock > t_target
       THEN /\ t_pc' = "ok"
            /\ UNCHANGED t_remaining
       ELSE /\ t_pc' = "arm"
            /\ t_remaining' = t_target - t_clock
    /\ UNCHANGED << t_target, t_clock, t_timer, t_live, t_sig, t_made, t_twice,
                    t_fault >>
    /\ UNCHANGED daemonVars

\* Line 95: add_timer(remaining.as_secs())?.
SleepArm ==
    /\ t_pc = "arm"
    /\ \E r \in { add_timer(as_secs(t_remaining), t_clock, t_live,
                             got, created, armed, deleted) :
                    got \in BOOLEAN, created \in BOOLEAN, armed \in BOOLEAN,
                    deleted \in BOOLEAN } :
            /\ t_pc' = IF r.ok THEN "await" ELSE "err"
            /\ t_timer' = r.timer
            /\ t_live' = r.live
            /\ t_made' = IF t_made + r.made >= 2 THEN 2 ELSE t_made + r.made
            /\ t_twice' = (t_twice \/ r.twice)
            /\ t_fault' = r.fault
    /\ UNCHANGED << t_target, t_clock, t_remaining, t_sig >>
    /\ UNCHANGED daemonVars

\* The kernel: the armed timer expires (CLOCK_REALTIME has reached its
\* value, also when that happened during a suspend) and raises SIGALRM.
TimerExpires ==
    /\ t_timer # None
    /\ t_clock >= t_timer[1]
    /\ t_timer' = None
    /\ t_sig' = TRUE
    /\ UNCHANGED << t_pc, t_target, t_clock, t_remaining, t_live, t_made, t_twice,
                    t_fault >>
    /\ UNCHANGED daemonVars

\* A SIGALRM that no timer of this call raised reaches the listener.
StraySignal ==
    /\ t_pc \in { "loop", "arm", "await" }
    /\ ~t_sig
    /\ t_sig' = TRUE
    /\ UNCHANGED << t_pc, t_target, t_clock, t_remaining, t_timer, t_live, t_made,
                    t_twice, t_fault >>
    /\ UNCHANGED daemonVars

\* The wake-up that takes the signal for the end of the wait.
SleepWake_returns(deleted) ==
    /\ t_pc = "await"
    /\ t_sig
    /\ t_sig' = FALSE
    /\ LET r == remove_timer(t_live, deleted) IN
            /\ t_pc' = IF r.ok THEN "ok" ELSE "err"
            /\ t_live' = r.live
            /\ t_timer' = IF r.ok THEN None ELSE t_timer
            /\ t_twice' = (t_twice \/ r.twice)
            /\ t_fault' = IF r.ok THEN "none" ELSE "delete"
    /\ UNCHANGED << t_target, t_clock, t_remaining, t_made >>
    /\ UNCHANGED daemonVars

\* Lines 98-100: alarm.recv() hands out a signal, then remove_timer(timer)?
\* and the next iteration.
SleepWake(deleted) ==
    /\ t_pc = "await"
    /\ t_sig
    /\ t_sig' = FALSE
    /\ LET r == remove_timer(t_live, deleted) IN
            /\ t_pc' = IF r.ok THEN "loop" ELSE "err"
            /\ t_live' = r.live
            /\ t_timer' = IF r.ok THEN None ELSE t_timer
            /\ t_twice' = (t_twice \/ r.twice)
            /\ t_fault' = IF r.ok THEN "none" ELSE "delete"
    /\ UNCHANGED << t_target, t_clock, t_remaining, t_made >>
    /\ UNCHANGED daemonVars

\* The caller drops the future while it waits at line 98 (it raced the
\* wait against another event).
SleepAbandon ==
    /\ t_pc = "await"
    /\ t_pc' = "dropped"
    /\ UNCHANGED << t_target, t_clock, t_remaining, t_timer, t_live, t_sig,
                    t_made, t_twice, t_fault >>
    /\ UNCHANGED daemonVars

\* CLOCK_REALTIME advances, while the process runs or while it is suspended;
\* it goes on beyond MaxClock up to the time an armed timer waits for.
ClockTick ==
    /\ \/ t_clock < MaxClock
       \/ t_timer # None /\ t_clock < t_timer[1]
    /\ t_clock' = t_clock + 1
    /\ UNCHANGED << t_pc, t_target, t_remaining, t_timer, t_live, t_sig, t_made,
                    t_twice, t_fault >>
    /\ UNCHANGED daemonVars

(***************************************************************************)
(* Specifications.                                                         *)
(***************************************************************************)
\* The tasks that serve D-Bus method calls in the model.
Callers == { "c1", "c2" }

\* Nobody holds the lock of the Store or waits for it, and no method call
\* is under way.
LockIdle ==
    /\ lock = [writer |-> None, readers |-> {}, queue |-> << >>]
    /\ calls = [c \in Callers |-> [pc |-> "idle", op |-> "none", arg |-> None]]

\* No call of sleep_until is under way.
TimerIdle ==
    /\ t_pc = "idle"
    /\ t_target = 0
    /\ t_clock = 0
    /\ t_remaining = 0
    /\ t_timer = None
    /\ t_live = 0
    /\ t_sig = FALSE
    /\ t_made = 0
    /\ t_twice = FALSE
    /\ t_fault = "none"

\* The daemon after the setup of launch: the Store read from an empty or
\* missing file, the first sleep of zero seconds, the inhibitor taken when
\* logind is there and grants it.  No client is running.
Init ==
    /\ db = None
    /\ alarms = from_str(db)
    /\ alarms_changed = FALSE
    /\ unseen = 0
    /\ wait_alarm = Some(0)
    /\ poll = MANUAL_UPDATE_INTERVAL
    /\ logind \in BOOLEAN
    /\ inhibitor \in (IF logind THEN BOOLEAN ELSE {FALSE})
    /\ rtc = RESET_ALARM
    /\ now = 0
    /\ mono = 0
    /\ last = Last("launch", "none", << >>, 0, 0)
    /\ signal = None
    /\ c_alarms = << >>
    /\ c_next = None
    /\ c_pc = "off"
    /\ c_sleep = 0
    /\ rung = [id \in Ids |-> 0]
    /\ s_pc = "select"
    /\ suspend_stream = << >>
    /\ LockIdle
    /\ TimerIdle

\* The daemon with its clients' calls, the suspend manager, the clock of a
\* running machine and other writers of the register; the file rewrite
\* succeeds.
Next ==
    \/ \E alarm \in AlarmInputs : add_alarm(alarm, Faults, "ok")
    \/ \E id \in Ids : remove_alarm(id, Faults, "ok")
    \/ LoopAlarmsChanged("ok")
    \/ LoopWaitExpired("ok")
    \/ LoopSuspend(Faults, "ok", "ok")
    \/ \E acquired \in BOOLEAN : LoopResume(acquired, "ok")
    \/ Tick
    \/ \E t \in Instants : ThirdPartySetWakeup(t)

Spec == Init /\ [][Next]_vars

\* The same daemon on a machine whose RTC accesses succeed and where no
\* other program writes the register.
NextOwn ==
    \/ \E alarm \in AlarmInputs : add_alarm(alarm, NoFaults, "ok")
    \/ \E id \in Ids : remove_alarm(id, NoFaults, "ok")
    \/ LoopAlarmsChanged("ok")
    \/ LoopWaitExpired("ok")
    \/ LoopSuspend(NoFaults, "ok", "ok")
    \/ \E acquired \in BOOLEAN : LoopResume(acquired, "ok")
    \/ Tick

SpecOwn == Init /\ [][NextOwn]_vars

\* Store::add that takes the alarm back and returns false when the file
\* could not be written.
StoreAdd_rollback(alarm, w) ==
    LET r == add(alarms, alarm)
        kept == r.ret /\ w = "ok"
    IN
    /\ r.ret => Len(alarms) < MaxAlarms
    /\ alarms' = IF kept THEN r.alarms ELSE alarms
    /\ db' = IF r.synced THEN sync(db, r.alarms, w) ELSE db
    /\ alarms_changed' = (alarms_changed \/ r.synced)
    /\ unseen' = Sent(unseen, IF r.synced THEN 1 ELSE 0)
    /\ last' = Last("add", IF kept THEN "true" ELSE "false", << >>, 0,
                    IF r.synced THEN 1 ELSE 0)
    /\ UNCHANGED << wait_alarm, poll, logind, inhibitor, rtc, now, mono >>
    /\ UNCHANGED clientVars
    /\ UNCHANGED timerVars
    /\ UNCHANGED loopVars

(***************************************************************************)
(* The Store on its own: its methods called in any order.  In SpecStore    *)
(* the file rewrite of sync succeeds; in SpecFile it may fail as well.     *)
(***************************************************************************)
\* Store::add.
StoreAdd(alarm, w) ==
    LET r == add(alarms, alarm) IN
    /\ r.ret => Len(alarms) < MaxAlarms
    /\ alarms' = r.alarms
    /\ db' = IF r.synced THEN sync(db, r.alarms, w) ELSE db
    /\ alarms_changed' = (alarms_changed \/ r.synced)
    /\ unseen' = Sent(unseen, IF r.synced THEN 1 ELSE 0)
    /\ last' = Last("add", IF r.ret THEN "true" ELSE "false", << >>, 0,
                    IF r.synced THEN 1 ELSE 0)
    /\ UNCHANGED << wait_alarm, poll, logind, inhibitor, rtc, now, mono >>
    /\ UNCHANGED clientVars
    /\ UNCHANGED timerVars
    /\ UNCHANGED loopVars

\* Store::remove.
StoreRemove(id, w) ==
    LET r == remove(alarms, id) IN
    /\ alarms' = r.alarms
    /\ db' = IF r.synced THEN sync(db, r.alarms, w) ELSE db
    /\ alarms_changed' = (alarms_changed \/ r.synced)
    /\ unseen' = Sent(unseen, IF r.synced THEN 1 ELSE 0)
    /\ last' = Last("remove", IF r.removed = None THEN "none" ELSE "some", r.removed,
                    0, IF r.synced THEN 1 ELSE 0)
    /\ UNCHANGED << wait_alarm, poll, logind, inhibitor, rtc, now, mono >>
    /\ UNCHANGED clientVars
    /\ UNCHANGED timerVars
    /\ UNCHANGED loopVars

\* Store::remove_elapsed.  The record of the call says whether it directly
\* follows another call of remove_elapsed ("again") or not ("first").
StoreRemoveElapsed(w) ==
    LET r == remove_elapsed(alarms, now) IN
    /\ alarms' = r.alarms
    /\ db' = IF r.synced THEN sync(db, r.alarms, w) ELSE db
    /\ alarms_changed' = (alarms_changed \/ r.synced)
    /\ unseen' = Sent(unseen, IF r.synced THEN 1 ELSE 0)
    /\ last' = Last("remove_elapsed",
                    IF last.op = "remove_elapsed" THEN "again" ELSE "first",
                    << >>, r.count,
                    IF r.synced THEN 1 ELSE 0)
    /\ UNCHANGED << wait_alarm, poll, logind, inhibitor, rtc, now, mono >>
    /\ UNCHANGED clientVars
    /\ UNCHANGED timerVars
    /\ UNCHANGED loopVars

\* A receiver of Store::subscribe sees the change (changed() resolves).
StoreChanged ==
    /\ alarms_changed
    /\ alarms_changed' = FALSE
    /\ unseen' = 0
    /\ last' = Last("changed", "none", << >>, 0, 0)
    /\ UNCHANGED << alarms, db, wait_alarm, poll, logind, inhibitor, rtc, now, mono >>
    /\ UNCHANGED clientVars
    /\ UNCHANGED timerVars
    /\ UNCHANGED loopVars

NextStore ==
    \/ \E alarm \in AlarmInputs : StoreAdd(alarm, "ok")
    \/ \E id \in Ids : StoreRemove(id, "ok")
    \/ StoreRemoveElapsed("ok")
    \/ StoreChanged
    \/ Tick

NextFile ==
    \/ \E alarm \in AlarmInputs, w \in SyncOutcomes : StoreAdd(alarm, w)
    \/ \E id \in Ids, w \in SyncOutcomes : StoreRemove(id, w)
    \/ \E w \in SyncOutcomes : StoreRemoveElapsed(w)
    \/ StoreChanged
    \/ Tick

\* The Store is constructed as in launch; logind plays no part.
InitStore == Init /\ ~logind

SpecStore == InitStore /\ [][NextStore]_vars

SpecFile == InitStore /\ [][NextFile]_vars

(***************************************************************************)
(* The start of the daemon on a file left by an earlier run or by someone  *)
(* else: launch returns when Rezz::new fails, otherwise it serves.         *)
(***************************************************************************)
StartupFiles ==
    { None, Malformed, NotText }
    \cup { Some(to_string(<< x >>)) : x \in AlarmInputs }

InitLaunch ==
    /\ db \in StartupFiles
    /\ alarms = Store_new(db).alarms
    /\ alarms_changed = FALSE
    /\ unseen = 0
    /\ wait_alarm = Some(0)
    /\ poll = MANUAL_UPDATE_INTERVAL
    /\ logind \in BOOLEAN
    /\ inhibitor \in (IF logind THEN BOOLEAN ELSE {FALSE})
    /\ rtc = RESET_ALARM
    /\ now = 0
    /\ mono = 0
    /\ last = Last("launch", IF Store_new(db).ok THEN "none" ELSE "error", << >>, 0, 0)
    /\ signal = None
    /\ c_alarms = << >>
    /\ c_next = None
    /\ c_pc = "off"
    /\ c_sleep = 0
    /\ rung = [id \in Ids |-> 0]
    /\ s_pc = "select"
    /\ suspend_stream = << >>
    /\ LockIdle
    /\ TimerIdle

\* launch has not returned at line 38.
Serving == ~(last.op = "launch" /\ last.ret = "error")

NextLaunch ==
    \/ Serving /\ \E alarm \in AlarmInputs : add_alarm(alarm, NoFaults, "ok")
    \/ Serving /\ \E id \in Ids : remove_alarm(id, NoFaults, "ok")
    \/ Serving /\ LoopAlarmsChanged("ok")
    \/ Serving /\ LoopWaitExpired("ok")
    \/ Serving /\ LoopSuspend(NoFaults, "ok", "ok")
    \/ Serving /\ \E acquired \in BOOLEAN : LoopResume(acquired, "ok")
    \/ Serving /\ Tick

SpecLaunch == InitLaunch /\ [][NextLaunch]_vars

(***************************************************************************)
(* One call of sleep_until in a process of its own: the call with any      *)
(* target, the kernel timer, signals from elsewhere, the clock, and a      *)
(* caller that may drop the future.                                        *)
(***************************************************************************)
\* No daemon runs in the process that calls sleep_until.
DaemonIdle ==
    /\ db = None
    /\ alarms = << >>
    /\ alarms_changed = FALSE
    /\ unseen = 0
    /\ wait_alarm = None
    /\ poll = 0
    /\ logind = FALSE
    /\ inhibitor = FALSE
    /\ rtc = RESET_ALARM
    /\ now = 0
    /\ mono = 0
    /\ last = Last("sleep_until", "none", << >>, 0, 0)
    /\ signal = None
    /\ c_alarms = << >>
    /\ c_next = None
    /\ c_pc = "off"
    /\ c_sleep = 0
    /\ rung = [id \in Ids |-> 0]
    /\ s_pc = "select"
    /\ suspend_stream = << >>
    /\ LockIdle

InitTimer ==
    /\ DaemonIdle
    /\ t_pc = "start"
    /\ t_target \in Targets
    /\ t_clock = 0
    /\ t_remaining = 0
    /\ t_timer = None
    /\ t_live = 0
    /\ t_sig = FALSE
    /\ t_made = 0
    /\ t_twice = FALSE
    /\ t_fault = "none"

NextTimer ==
    \/ \E registered \in BOOLEAN : SleepRegister(registered)
    \/ SleepCheck
    \/ SleepArm
    \/ TimerExpires
    \/ StraySignal
    \/ \E deleted \in BOOLEAN : SleepWake(deleted)
    \/ SleepAbandon
    \/ ClockTick

SpecTimer == InitTimer /\ [][NextTimer]_vars

\* The same call with a caller that goes on awaiting it.  The runtime goes on
\* polling the future, the kernel delivers the expiry of an armed timer,
\* and the clock goes on.
NextWait ==
    \/ \E registered \in BOOLEAN : SleepRegister(registered)
    \/ SleepCheck
    \/ SleepArm
    \/ TimerExpires
    \/ StraySignal
    \/ \E deleted \in BOOLEAN : SleepWake(deleted)
    \/ ClockTick

FairTimer ==
    /\ InitTimer
    /\ [][NextWait]_vars
    /\ WF_vars(\E registered \in BOOLEAN : SleepRegister(registered))
    /\ WF_vars(SleepCheck)
    /\ WF_vars(SleepArm)
    /\ WF_vars(TimerExpires)
    /\ WF_vars(\E deleted \in BOOLEAN : SleepWake(deleted))
    /\ WF_vars(ClockTick)

(***************************************************************************)
(* The client loop next to a daemon that only expires alarms: the file     *)
(* holds any list of alarms with distinct ids when both start, there is no *)
(* logind, and the machine may be suspended.                               *)
(***************************************************************************)
StoredLists ==
    { << >> } \cup { << x >> : x \in AlarmInputs }
    \cup { p \in { << x, y >> : x \in AlarmInputs, y \in AlarmInputs } : p[1].id # p[2].id }

InitClient ==
    /\ db \in { Some(to_string(als)) : als \in StoredLists }
    /\ alarms = from_str(db)
    /\ alarms_changed = FALSE
    /\ unseen = 0
    /\ wait_alarm = Some(0)
    /\ poll = MANUAL_UPDATE_INTERVAL
    /\ logind = FALSE
    /\ inhibitor = FALSE
    /\ rtc = RESET_ALARM
    /\ now = 0
    /\ mono = 0
    /\ last = Last("launch", "none", << >>, 0, 0)
    /\ signal = None
    /\ c_alarms = next_alarm(alarms, now).alarms
    /\ c_next = next_alarm(alarms, now).next
    /\ c_pc = "select"
    /\ c_sleep = Alarms_wait_alarm(c_next, now, mono)
    /\ rung = [id \in Ids |-> 0]
    /\ s_pc = "select"
    /\ suspend_stream = << >>
    /\ LockIdle
    /\ TimerIdle

NextClient ==
    \/ \E readable \in BOOLEAN : ClientAlarmsChanged(readable)
    \/ \E played \in BOOLEAN : ClientWaitFired(played)
    \/ ClientRingDone
    \/ LoopAlarmsChanged("ok")
    \/ LoopWaitExpired("ok")
    \/ Tick
    \/ Suspended

SpecClient == InitClient /\ [][NextClient]_vars

\* A branch of the client's select (or the end of its ring sleep) is ready.
ClientReady ==
    \/ c_pc \in {"select", "ringing"} /\ mono >= c_sleep
    \/ c_pc = "select" /\ signal # None

\* Time passes only when the client has nothing to do: a ready client runs
\* before the next second.
TickPrompt == ~ClientReady /\ Tick

\* The same on a machine that is never suspended, where the sound plays, the
\* property can be read and every process runs as soon as it can; the clock
\* advances to the end of the grid.
NextRing ==
    \/ ClientAlarmsChanged(TRUE)
    \/ ClientWaitFired(TRUE)
    \/ ClientRingDone
    \/ LoopAlarmsChanged("ok")
    \/ LoopWaitExpired("ok")
    \/ TickPrompt

FairRing ==
    /\ InitClient
    /\ [][NextRing]_vars
    /\ WF_vars(ClientAlarmsChanged(TRUE))
    /\ WF_vars(ClientWaitFired(TRUE))
    /\ WF_vars(ClientRingDone)
    /\ WF_vars(LoopAlarmsChanged("ok"))
    /\ WF_vars(LoopWaitExpired("ok"))
    /\ WF_vars(TickPrompt)

(***************************************************************************)
(* The Store with alarms that ring forever: RingDuration::Forever is       *)
(* the maximum of ring_seconds, and add_alarm takes any i64 as unix_time.  *)
(***************************************************************************)
\* The maximum of ring_seconds, which RingDuration::Forever stands for.  It
\* is u32::MAX in the code; the model gives ring_seconds 30 bits, which the
\* integers of the model checker can hold, and nothing depends on the width
\* but this value.
RING_MAX == 2 ^ 30 - 1

\* Alarms that ring forever: one for an instant of the grid, one for an
\* instant RING_MAX seconds before it.
ForeverInputs ==
    { Alarm(id, t, RING_MAX) : id \in Ids, t \in { TimeAt(1), TimeAt(1) - RING_MAX } }

NextForever ==
    \/ \E alarm \in ForeverInputs \cup AlarmInputs : StoreAdd(alarm, "ok")
    \/ \E id \in Ids : StoreRemove(id, "ok")
    \/ StoreRemoveElapsed("ok")
    \/ StoreChanged
    \/ Tick

SpecForever == InitStore /\ [][NextForever]_vars

(***************************************************************************)
(* The daemon left to itself on a machine with logind: alarms are in the   *)
(* file when it starts, no client calls, no suspend or resume event        *)
(* arrives, the clock runs past the end of every alarm, and the loop runs  *)
(* whenever a branch is ready.  The clock may advance while an iteration   *)
(* runs.                                                                   *)
(***************************************************************************)
\* The last tick of the clock here: later than the end of every alarm.
Horizon == MaxTick + 4

\* The alarms of the file: those clients ask for, and alarms that ring for
\* one minute (RingDuration::OneMinute).
ExpiryInputs ==
    AlarmInputs \cup { Alarm(id, TimeAt(i), 60) : id \in Ids, i \in 1..MaxTick }

ExpiryLists ==
    { << >> } \cup { << x >> : x \in ExpiryInputs }
    \cup { p \in { << x, y >> : x \in ExpiryInputs, y \in ExpiryInputs } :
            p[1].id # p[2].id }

InitExpiry ==
    /\ db \in { Some(to_string(als)) : als \in ExpiryLists }
    /\ alarms = from_str(db)
    /\ alarms_changed = FALSE
    /\ unseen = 0
    /\ wait_alarm = Some(0)
    /\ poll = MANUAL_UPDATE_INTERVAL
    /\ logind = TRUE
    /\ inhibitor \in BOOLEAN
    /\ rtc = RESET_ALARM
    /\ now = 0
    /\ mono = 0
    /\ last = Last("launch", "none", << >>, 0, 0)
    /\ signal = None
    /\ c_alarms = << >>
    /\ c_next = None
    /\ c_pc = "off"
    /\ c_sleep = 0
    /\ rung = [id \in Ids |-> 0]
    /\ s_pc = "select"
    /\ suspend_stream = << >>
    /\ LockIdle
    /\ TimerIdle

\* The alarms_changed branch in an iteration during which the clock advances
\* by k ticks between remove_elapsed and line 99.
SlowAlarmsChanged(k, w) ==
    /\ alarms_changed
    /\ now + k <= Horizon
    /\ now' = now + k
    /\ mono' = mono + k * Step
    /\ LoopTailAt("alarms_changed", "none", alarms, db, FALSE, 0, w,
                  now + k, mono + k * Step)
    /\ UNCHANGED << logind, inhibitor, rtc >>
    /\ UNCHANGED clientVars
    /\ UNCHANGED timerVars
    /\ UNCHANGED loopVars

\* The wait_alarm branch in such an iteration.
SlowWaitExpired(k, w) ==
    /\ wait_alarm # None
    /\ mono >= wait_alarm[1]
    /\ now + k <= Horizon
    /\ now' = now + k
    /\ mono' = mono + k * Step
    /\ LoopTailAt("wait_alarm", "none", alarms, db, alarms_changed, 0, w,
                  now + k, mono + k * Step)
    /\ UNCHANGED << logind, inhibitor, rtc >>
    /\ UNCHANGED clientVars
    /\ UNCHANGED timerVars
    /\ UNCHANGED loopVars

\* Time passes up to the horizon.
TickOn ==
    /\ now < Horizon
    /\ now' = now + 1
    /\ mono' = mono + Step
    /\ last' = Last("clock", "none", << >>, 0, 0)
    /\ UNCHANGED << alarms, db, alarms_changed, unseen, wait_alarm, poll, logind,
                    inhibitor, rtc >>
    /\ UNCHANGED clientVars
    /\ UNCHANGED timerVars
    /\ UNCHANGED loopVars

NextExpiry ==
    \/ \E k \in 0..1 : SlowAlarmsChanged(k, "ok")
    \/ \E k \in 0..1 : SlowWaitExpired(k, "ok")
    \/ TickOn

FairExpiry ==
    /\ InitExpiry
    /\ [][NextExpiry]_vars
    /\ WF_vars(\E k \in 0..1 : SlowAlarmsChanged(k, "ok"))
    /\ WF_vars(\E k \in 0..1 : SlowWaitExpired(k, "ok"))
    /\ WF_vars(TickOn)

\* The same with iterations during which the clock stands still.
NextPrompt ==
    \/ SlowAlarmsChanged(0, "ok")
    \/ SlowWaitExpired(0, "ok")
    \/ TickOn

FairPrompt ==
    /\ InitExpiry
    /\ [][NextPrompt]_vars
    /\ WF_vars(SlowAlarmsChanged(0, "ok"))
    /\ WF_vars(SlowWaitExpired(0, "ok"))
    /\ WF_vars(TickOn)

(***************************************************************************)
(* The suspend branch of the loop statement by statement: Rezz::on_suspend *)
(* (remove_elapsed, schedule_nearest, inhibitor.take()) and the tail of    *)
(* the iteration.  The D-Bus methods run in tasks of their own and take    *)
(* the lock of the Store between any two of the statements.                *)
(***************************************************************************)
\* on_suspend that drops the lease together with remove_elapsed, before the
\* wakeup is staged.
OnSuspendRemoveElapsed_takes(w) ==
    LET e == remove_elapsed(alarms, now) IN
    /\ s_pc = "select"
    /\ logind \/ mono >= poll
    /\ alarms' = e.alarms
    /\ db' = IF e.synced THEN sync(db, e.alarms, w) ELSE db
    /\ alarms_changed' = (alarms_changed \/ e.synced)
    /\ unseen' = Sent(unseen, IF e.synced THEN 1 ELSE 0)
    /\ inhibitor' = FALSE
    /\ last' = Last("on_suspend", "remove_elapsed", << >>, e.count,
                    IF e.synced THEN 1 ELSE 0)
    /\ s_pc' = "schedule_nearest"
    /\ UNCHANGED << suspend_stream, lockVars >>
    /\ UNCHANGED << wait_alarm, poll, logind, rtc, now, mono >>
    /\ UNCHANGED clientVars
    /\ UNCHANGED timerVars

\* await_suspend returned true; lines 185-188 of on_suspend: remove_elapsed.
OnSuspendRemoveElapsed(w) ==
    LET e == remove_elapsed(alarms, now) IN
    /\ s_pc = "select"
    /\ logind \/ mono >= poll
    /\ alarms' = e.alarms
    /\ db' = IF e.synced THEN sync(db, e.alarms, w) ELSE db
    /\ alarms_changed' = (alarms_changed \/ e.synced)
    /\ unseen' = Sent(unseen, IF e.synced THEN 1 ELSE 0)
    /\ last' = Last("on_suspend", "remove_elapsed", << >>, e.count,
                    IF e.synced THEN 1 ELSE 0)
    /\ s_pc' = "schedule_nearest"
    /\ UNCHANGED << suspend_stream, lockVars >>
    /\ UNCHANGED << wait_alarm, poll, logind, inhibitor, rtc, now, mono >>
    /\ UNCHANGED clientVars
    /\ UNCHANGED timerVars

\* Line 191 of on_suspend: schedule_nearest, which logs its failures.
OnSuspendScheduleNearest(H) ==
    /\ s_pc = "schedule_nearest"
    /\ \E o \in { schedule_nearest(alarms, rtc, now, rd, wr) : rd \in H, wr \in H } :
            /\ rtc' = o.rtc
            /\ last' = Last("on_suspend", IF o.failed THEN "rtc_failed" ELSE "staged",
                            << >>, 0, 0)
    /\ s_pc' = "take"
    /\ UNCHANGED << suspend_stream, lockVars >>
    /\ UNCHANGED << alarms, db, alarms_changed, unseen, wait_alarm, poll, logind,
                    inhibitor, now, mono >>
    /\ UNCHANGED clientVars
    /\ UNCHANGED timerVars

\* Line 194 of on_suspend: inhibitor.take() drops the lease if one is held.
OnSuspendTake ==
    /\ s_pc = "take"
    /\ inhibitor' = FALSE
    /\ last' = Last("on_suspend", IF inhibitor THEN "released" ELSE "no_lease",
                    << >>, 0, 0)
    /\ s_pc' = "tail"
    /\ UNCHANGED << suspend_stream, lockVars >>
    /\ UNCHANGED << alarms, db, alarms_changed, unseen, wait_alarm, poll, logind,
                    rtc, now, mono >>
    /\ UNCHANGED clientVars
    /\ UNCHANGED timerVars

\* Lines 91-103 of launch after on_suspend has returned.
OnSuspendTail(w) ==
    /\ s_pc = "tail"
    /\ LoopTail("tail", "none", alarms, db, alarms_changed, 0, w)
    /\ s_pc' = "select"
    /\ UNCHANGED << suspend_stream, lockVars >>
    /\ UNCHANGED << logind, inhibitor, rtc, now, mono >>
    /\ UNCHANGED clientVars
    /\ UNCHANGED timerVars

\* The other branches are taken when the loop is at select.
NextSteps ==
    \/ \E alarm \in AlarmInputs : add_alarm(alarm, NoFaults, "ok")
    \/ \E id \in Ids : remove_alarm(id, NoFaults, "ok")
    \/ s_pc = "select" /\ LoopAlarmsChanged("ok")
    \/ s_pc = "select" /\ LoopWaitExpired("ok")
    \/ s_pc = "select" /\ \E acquired \in BOOLEAN : LoopResume(acquired, "ok")
    \/ OnSuspendRemoveElapsed("ok")
    \/ OnSuspendScheduleNearest(Faults)
    \/ OnSuspendTake
    \/ OnSuspendTail("ok")
    \/ Tick

\* The suspend manager is there and sends the events.
InitSteps == Init /\ logind

SpecSteps == InitSteps /\ [][NextSteps]_vars

(***************************************************************************)
(* The daemon next to another program that stages wakeups, with alarms set *)
(* for the instants that get_wakeup returns for the instants of the grid.  *)
(***************************************************************************)
\* The instants after the start of the daemon that get_wakeup returns for a
\* register staged at an instant of the grid.
ReadBack ==
    { t \in { WakeupFrom(RtcWkalmFrom(u))[1] :
                u \in { v \in Instants : WakeupFrom(RtcWkalmFrom(v)) # None } } :
        t > TimeAt(0) }

ReadBackInputs == { Alarm(id, t, Step) : id \in Ids, t \in ReadBack }

NextForeign ==
    \/ \E alarm \in ReadBackInputs : add_alarm(alarm, NoFaults, "ok")
    \/ \E id \in Ids : remove_alarm(id, NoFaults, "ok")
    \/ LoopAlarmsChanged("ok")
    \/ LoopWaitExpired("ok")
    \/ \E t \in Instants : ThirdPartySetWakeup(t)
    \/ Tick

SpecForeign == Init /\ [][NextForeign]_vars

(***************************************************************************)
(* The daemon on a machine without logind, minute by minute: alarms are in *)
(* the file when it starts, clients remove alarms, and the loop runs as    *)
(* soon as a branch of the select is ready.  The wall clock is read at the *)
(* resolution of the time grid and stays at its first instant.             *)
(***************************************************************************)
\* The monotonic clock advances by a third of the update interval.
PollStep == MANUAL_UPDATE_INTERVAL \div 3

\* The last instant of the monotonic clock here.
PollHorizon == 3 * MANUAL_UPDATE_INTERVAL

InitPoll ==
    /\ db \in { Some(to_string(als)) : als \in ExpiryLists \ { << >> } }
    /\ alarms = from_str(db)
    /\ alarms_changed = FALSE
    /\ unseen = 0
    /\ wait_alarm = Some(0)
    /\ poll = MANUAL_UPDATE_INTERVAL
    /\ logind = FALSE
    /\ inhibitor = FALSE
    /\ rtc = RESET_ALARM
    /\ now = 0
    /\ mono = 0
    /\ last = Last("launch", "none", << >>, 0, 0)
    /\ signal = None
    /\ c_alarms = << >>
    /\ c_next = None
    /\ c_pc = "off"
    /\ c_sleep = 0
    /\ rung = [id \in Ids |-> 0]
    /\ s_pc = "select"
    /\ suspend_stream = << >>
    /\ LockIdle
    /\ TimerIdle

\* A branch of the select is ready.
SelectReady ==
    \/ alarms_changed
    \/ wait_alarm # None /\ mono >= wait_alarm[1]
    \/ logind \/ mono >= poll

\* Time passes while the loop waits at the select.
PollTick ==
    /\ ~SelectReady
    /\ mono < PollHorizon
    /\ mono' = mono + PollStep
    /\ last' = Last("clock", "none", << >>, 0, 0)
    /\ UNCHANGED << alarms, db, alarms_changed, unseen, wait_alarm, poll, logind,
                    inhibitor, rtc, now >>
    /\ UNCHANGED clientVars
    /\ UNCHANGED timerVars
    /\ UNCHANGED loopVars

NextPoll ==
    \/ \E id \in Ids : remove_alarm(id, NoFaults, "ok")
    \/ LoopAlarmsChanged("ok")
    \/ LoopWaitExpired("ok")
    \/ LoopSuspend(NoFaults, "ok", "ok")
    \/ PollTick

SpecPoll == InitPoll /\ [][NextPoll]_vars

(***************************************************************************)
(* The loop with the PrepareForSleep stream of logind as a queue: what     *)
(* logind has sent and stream.next() has not yet yielded, ending in "end"  *)
(* when the stream is over (the connection to the bus is closed).          *)
(***************************************************************************)
\* The messages that wait in the stream at most.
MaxStream == 2

\* PrepareForSleep(true), PrepareForSleep(false), and a message whose body
\* is no bool.
StreamEvents == { "suspend", "resume", "undecodable" }

\* Lines 139-144: what await_suspend returns for what stream.next() yields.
await_suspend(item) ==
    CASE item = "suspend" -> TRUE
      [] item = "resume" -> FALSE
      [] item = "undecodable" -> TRUE
      [] item = "end" -> TRUE

\* The stream after stream.next() has yielded its head: the end of a stream
\* is yielded again by every later call.
StreamRest(stream) == IF Head(stream) = "end" THEN stream ELSE Tail(stream)

\* What can wait in the stream.
Streams ==
    LET Seqs(n) == UNION { [1..k -> StreamEvents] : k \in 0..n }
    IN  Seqs(MaxStream) \cup { Append(q, "end") : q \in Seqs(MaxStream - 1) }

\* logind sends a message, or the stream comes to its end.
LogindSends(e) ==
    /\ logind
    /\ Len(suspend_stream) < MaxStream
    /\ IF suspend_stream = << >> THEN TRUE
       ELSE suspend_stream[Len(suspend_stream)] # "end"
    /\ suspend_stream' = Append(suspend_stream, e)
    /\ last' = Last("logind", "none", << >>, 0, 0)
    /\ UNCHANGED << alarms, db, alarms_changed, unseen, wait_alarm, poll, logind,
                    inhibitor, rtc, now, mono >>
    /\ UNCHANGED clientVars
    /\ UNCHANGED timerVars
    /\ UNCHANGED << s_pc, lockVars >>

\* The suspend branch when await_suspend returns true: Rezz::on_suspend,
\* then the tail of the iteration.
StreamSuspend(H, w1, w2) ==
    /\ logind
    /\ suspend_stream # << >>
    /\ await_suspend(Head(suspend_stream))
    /\ suspend_stream' = StreamRest(suspend_stream)
    /\ LET e == remove_elapsed(alarms, now)
           db1 == IF e.synced THEN sync(db, e.alarms, w1) ELSE db
       IN  \E o \in { schedule_nearest(e.alarms, rtc, now, rd, wr) :
                        rd \in H, wr \in H } :
                /\ rtc' = o.rtc
                /\ inhibitor' = FALSE
                /\ LoopTail("on_suspend", IF o.failed THEN "rtc_failed" ELSE "ok",
                            e.alarms, db1, alarms_changed \/ e.synced,
                            IF e.synced THEN 1 ELSE 0, w2)
    /\ UNCHANGED << logind, now, mono >>
    /\ UNCHANGED clientVars
    /\ UNCHANGED timerVars
    /\ UNCHANGED << s_pc, lockVars >>

\* The same branch with an add_logind_inhibitor that stores the result of
\* inhibit whatever it is.
StreamResume_clears(acquired, w) ==
    /\ logind
    /\ suspend_stream # << >>
    /\ ~await_suspend(Head(suspend_stream))
    /\ suspend_stream' = StreamRest(suspend_stream)
    /\ inhibitor' = acquired
    /\ LoopTail("add_logind_inhibitor", IF acquired THEN "ok" ELSE "inhibit_failed",
                alarms, db, alarms_changed, 0, w)
    /\ UNCHANGED << logind, rtc, now, mono >>
    /\ UNCHANGED clientVars
    /\ UNCHANGED timerVars
    /\ UNCHANGED << s_pc, lockVars >>

\* The suspend branch when await_suspend returns false:
\* Rezz::add_logind_inhibitor, then the tail of the iteration.
StreamResume(acquired, w) ==
    /\ logind
    /\ suspend_stream # << >>
    /\ ~await_suspend(Head(suspend_stream))
    /\ suspend_stream' = StreamRest(suspend_stream)
    /\ inhibitor' = IF acquired THEN TRUE ELSE inhibitor
    /\ LoopTail("add_logind_inhibitor", IF acquired THEN "ok" ELSE "inhibit_failed",
                alarms, db, alarms_changed, 0, w)
    /\ UNCHANGED << logind, rtc, now, mono >>
    /\ UNCHANGED clientVars
    /\ UNCHANGED timerVars
    /\ UNCHANGED << s_pc, lockVars >>

\* No branch of the select is ready: the loop waits.
Blocked ==
    /\ ~alarms_changed
    /\ wait_alarm = None \/ mono < wait_alarm[1]
    /\ IF logind THEN suspend_stream = << >> ELSE mono < poll

\* The daemon right after launch at some time of the clock, with alarms in
\* the file and messages in the stream, and then left alone: no client
\* calls, logind sends nothing more, the clock stands still.
InitQuiet ==
    /\ db \in { Some(to_string(als)) : als \in { l \in ExpiryLists : Len(l) <= 1 } }
    /\ alarms = from_str(db)
    /\ alarms_changed = FALSE
    /\ unseen = 0
    /\ wait_alarm = Some(0)
    /\ poll = MANUAL_UPDATE_INTERVAL
    /\ logind = TRUE
    /\ inhibitor = TRUE
    /\ rtc = RESET_ALARM
    /\ now \in 0..MaxTick
    /\ mono = 0
    /\ last = Last("launch", "none", << >>, 0, 0)
    /\ signal = None
    /\ c_alarms = << >>
    /\ c_next = None
    /\ c_pc = "off"
    /\ c_sleep = 0
    /\ rung = [id \in Ids |-> 0]
    /\ s_pc = "select"
    /\ suspend_stream \in Streams
    /\ LockIdle
    /\ TimerIdle

NextQuiet ==
    \/ LoopAlarmsChanged("ok")
    \/ LoopWaitExpired("ok")
    \/ StreamSuspend(NoFaults, "ok", "ok")
    \/ StreamResume(TRUE, "ok")

\* The loop goes on running while a branch of its select is ready.
FairQuiet == InitQuiet /\ [][NextQuiet]_vars /\ WF_vars(NextQuiet)

(***************************************************************************)
(* The client loop next to the daemon and to programs that call           *)
(* remove_alarm for the alarms of the file.                                *)
(***************************************************************************)
NextBoth ==
    \/ \E readable \in BOOLEAN : ClientAlarmsChanged(readable)
    \/ \E played \in BOOLEAN : ClientWaitFired(played)
    \/ ClientRingDone
    \/ \E id \in Ids : remove_alarm(id, NoFaults, "ok")
    \/ LoopAlarmsChanged("ok")
    \/ LoopWaitExpired("ok")
    \/ Tick

SpecBoth == InitClient /\ [][NextBoth]_vars

(***************************************************************************)
(* The client loop next to the daemon while programs remove alarms of the  *)
(* file and alarms elapse, with a clock that runs on until every ring is   *)
(* over.  Every process goes on running, the client as soon as it can; the *)
(* calls come at any time.                                                 *)
(***************************************************************************)
\* Time passes up to the horizon when the client has nothing to do.
TickLate == ~ClientReady /\ TickOn

NextSnapshot ==
    \/ \E readable \in BOOLEAN : ClientAlarmsChanged(readable)
    \/ ClientWaitFired(TRUE)
    \/ ClientRingDone
    \/ \E id \in Ids : remove_alarm(id, NoFaults, "ok")
    \/ LoopAlarmsChanged("ok")
    \/ LoopWaitExpired("ok")
    \/ TickLate

FairSnapshot ==
    /\ InitClient
    /\ [][NextSnapshot]_vars
    /\ WF_vars(\E readable \in BOOLEAN : ClientAlarmsChanged(readable))
    /\ WF_vars(ClientWaitFired(TRUE))
    /\ WF_vars(ClientRingDone)
    /\ WF_vars(LoopAlarmsChanged("ok"))
    /\ WF_vars(LoopWaitExpired("ok"))
    /\ WF_vars(TickLate)

\* The same when the client can read every list it is notified of.
NextReadable ==
    \/ ClientAlarmsChanged(TRUE)
    \/ ClientWaitFired(TRUE)
    \/ ClientRingDone
    \/ \E id \in Ids : remove_alarm(id, NoFaults, "ok")
    \/ LoopAlarmsChanged("ok")
    \/ LoopWaitExpired("ok")
    \/ TickLate

FairReadable ==
    /\ InitClient
    /\ [][NextReadable]_vars
    /\ WF_vars(ClientAlarmsChanged(TRUE))
    /\ WF_vars(ClientWaitFired(TRUE))
    /\ WF_vars(ClientRingDone)
    /\ WF_vars(LoopAlarmsChanged("ok"))
    /\ WF_vars(LoopWaitExpired("ok"))
    /\ WF_vars(TickLate)

(***************************************************************************)
(* The daemon with logind, whose messages wait in the stream until the     *)
(* loop takes them, and with clients that add alarms; the RTC accesses of  *)
(* add_alarm may fail, those of on_suspend succeed.                        *)
(***************************************************************************)
\* logind is there and has granted the first lease.
InitStream == Init /\ logind /\ inhibitor

\* The alarms added here ring for one step of the grid.
StreamInputs == { alarm \in AlarmInputs : alarm.ring_seconds = Step }

NextStream ==
    \/ \E alarm \in StreamInputs : add_alarm(alarm, Faults, "ok")
    \/ \E e \in { "suspend", "resume", "end" } : LogindSends(e)
    \/ StreamSuspend(NoFaults, "ok", "ok")
    \/ \E acquired \in BOOLEAN : StreamResume(acquired, "ok")
    \/ LoopAlarmsChanged("ok")
    \/ LoopWaitExpired("ok")
    \/ Tick

SpecStream == InitStream /\ [][NextStream]_vars

(***************************************************************************)
(* Store::add and Store::remove with a file whose rewrite may fail, and    *)
(* the receiver of the change channel.                                     *)
(***************************************************************************)
NextWrite ==
    \/ \E alarm \in AlarmInputs, w \in SyncOutcomes : StoreAdd(alarm, w)
    \/ \E id \in Ids, w \in SyncOutcomes : StoreRemove(id, w)
    \/ StoreChanged

SpecWrite == InitStore /\ [][NextWrite]_vars

(***************************************************************************)
(* rezz/src/dbus.rs: the lock of the Store.  Rezz.alarms is a tokio RwLock *)
(* (readers share it, a writer has it alone, waiters are served in the     *)
(* order they asked).  The loop and the method calls are tasks of one      *)
(* current_thread runtime: a task runs until it awaits, so the steps below *)
(* end where the code awaits the lock or returns.                          *)
(***************************************************************************)
\* read().await / write().await: p joins the waiters.
Enqueue(l, p, mode) == [l EXCEPT !.queue = Append(@, << p, mode >>)]

\* The first waiter is p and the lock can be given to it.
CanTake(l, p) ==
    /\ l.queue # << >>
    /\ Head(l.queue)[1] = p
    /\ l.writer = None
    /\ Head(l.queue)[2] = "write" => l.readers = {}

\* The first waiter gets its guard.
Take(l) ==
    LET p == Head(l.queue)[1] IN
    IF Head(l.queue)[2] = "write"
    THEN [writer |-> Some(p), readers |-> l.readers, queue |-> Tail(l.queue)]
    ELSE [writer |-> None, readers |-> l.readers \cup {p}, queue |-> Tail(l.queue)]

\* The guard of p is dropped.
Release(l, p) ==
    [l EXCEPT !.writer = IF @ = Some(p) THEN None ELSE @, !.readers = @ \ {p}]

\* select: alarms_changed.changed() completes; the emitter reads the
\* property through the getter alarms(), which awaits the read lock.
LockAlarmsChanged ==
    /\ s_pc = "select"
    /\ alarms_changed
    /\ alarms_changed' = FALSE
    /\ unseen' = 0
    /\ lock' = Enqueue(lock, "loop", "read")
    /\ s_pc' = "alarms_changed"
    /\ UNCHANGED << alarms, db, wait_alarm, poll, logind, inhibitor, rtc, now,
                    mono, last, calls, suspend_stream >>
    /\ UNCHANGED clientVars
    /\ UNCHANGED timerVars

\* select: wait_alarm completes; line 92 awaits the write lock.
LockWaitExpired ==
    /\ s_pc = "select"
    /\ wait_alarm # None
    /\ mono >= wait_alarm[1]
    /\ lock' = Enqueue(lock, "loop", "write")
    /\ s_pc' = "tail"
    /\ UNCHANGED << alarms, db, alarms_changed, unseen, wait_alarm, poll, logind,
                    inhibitor, rtc, now, mono, last, calls, suspend_stream >>
    /\ UNCHANGED clientVars
    /\ UNCHANGED timerVars

\* select: await_suspend returns true; on_suspend awaits the write lock.
LockSuspend ==
    /\ s_pc = "select"
    /\ logind
    /\ lock' = Enqueue(lock, "loop", "write")
    /\ s_pc' = "on_suspend"
    /\ UNCHANGED << alarms, db, alarms_changed, unseen, wait_alarm, poll, logind,
                    inhibitor, rtc, now, mono, last, calls, suspend_stream >>
    /\ UNCHANGED clientVars
    /\ UNCHANGED timerVars

\* select: await_suspend returns false; add_logind_inhibitor takes no lock,
\* then line 92 awaits the write lock.
LockResume(acquired) ==
    /\ s_pc = "select"
    /\ logind
    /\ inhibitor' = IF acquired THEN TRUE ELSE inhibitor
    /\ lock' = Enqueue(lock, "loop", "write")
    /\ s_pc' = "tail"
    /\ UNCHANGED << alarms, db, alarms_changed, unseen, wait_alarm, poll, logind,
                    rtc, now, mono, last, calls, suspend_stream >>
    /\ UNCHANGED clientVars
    /\ UNCHANGED timerVars

\* The loop is given the lock it waits for.
LoopAcquire ==
    /\ s_pc \in { "alarms_changed", "on_suspend", "schedule_nearest", "tail" }
    /\ CanTake(lock, "loop")
    /\ lock' = Take(lock)
    /\ s_pc' = CASE s_pc = "alarms_changed" -> "alarms_changed_held"
                 [] s_pc = "on_suspend" -> "on_suspend_held"
                 [] s_pc = "schedule_nearest" -> "schedule_nearest_held"
                 [] s_pc = "tail" -> "tail_held"
    /\ UNCHANGED << alarms, db, alarms_changed, unseen, wait_alarm, poll, logind,
                    inhibitor, rtc, now, mono, last, calls, suspend_stream >>
    /\ UNCHANGED clientVars
    /\ UNCHANGED timerVars

\* Lines 311-314 and 74: the getter clones the list and drops its guard, the
\* signal is sent; line 92 awaits the write lock.
LoopEmit ==
    /\ s_pc = "alarms_changed_held"
    /\ signal' = IF c_pc = "off" THEN signal ELSE Some(alarms)
    /\ lock' = Enqueue(Release(lock, "loop"), "loop", "write")
    /\ s_pc' = "tail"
    /\ UNCHANGED << alarms, db, alarms_changed, unseen, wait_alarm, poll, logind,
                    inhibitor, rtc, now, mono, last, calls, suspend_stream >>
    /\ UNCHANGED << c_alarms, c_next, c_pc, c_sleep, rung >>
    /\ UNCHANGED timerVars

\* Lines 185-191 of on_suspend: remove_elapsed under the write guard, which
\* the block drops; schedule_nearest awaits the read lock.
LoopRemoveElapsed ==
    LET e == remove_elapsed(alarms, now) IN
    /\ s_pc = "on_suspend_held"
    /\ alarms' = e.alarms
    /\ db' = IF e.synced THEN sync(db, e.alarms, "ok") ELSE db
    /\ alarms_changed' = (alarms_changed \/ e.synced)
    /\ unseen' = Sent(unseen, IF e.synced THEN 1 ELSE 0)
    /\ lock' = Enqueue(Release(lock, "loop"), "loop", "read")
    /\ s_pc' = "schedule_nearest"
    /\ UNCHANGED << wait_alarm, poll, logind, inhibitor, rtc, now, mono, last,
                    calls, suspend_stream >>
    /\ UNCHANGED clientVars
    /\ UNCHANGED timerVars

\* Lines 212-239 and 194: schedule_nearest under the read guard, dropped when
\* it returns; inhibitor.take(); line 92 awaits the write lock.
LoopScheduleNearest ==
    /\ s_pc = "schedule_nearest_held"
    /\ rtc' = schedule_nearest(alarms, rtc, now, TRUE, TRUE).rtc
    /\ inhibitor' = FALSE
    /\ lock' = Enqueue(Release(lock, "loop"), "loop", "write")
    /\ s_pc' = "tail"
    /\ UNCHANGED << alarms, db, alarms_changed, unseen, wait_alarm, poll, logind,
                    now, mono, last, calls, suspend_stream >>
    /\ UNCHANGED clientVars
    /\ UNCHANGED timerVars

\* Lines 92-104 with a guard that outlives the iteration: the loop goes back
\* to select with the write lock in its hands.
LoopTailHeld_keeps ==
    LET e == remove_elapsed(alarms, now) IN
    /\ s_pc = "tail_held"
    /\ alarms' = e.alarms
    /\ db' = IF e.synced THEN sync(db, e.alarms, "ok") ELSE db
    /\ alarms_changed' = (alarms_changed \/ e.synced)
    /\ unseen' = Sent(unseen, IF e.synced THEN 1 ELSE 0)
    /\ wait_alarm' = ArmWait(e.alarms, now, mono)
    /\ lock' = lock
    /\ s_pc' = "select"
    /\ UNCHANGED << poll, logind, inhibitor, rtc, now, mono, last, calls,
                    suspend_stream >>
    /\ UNCHANGED clientVars
    /\ UNCHANGED timerVars

\* Lines 92-104: remove_elapsed and the new sleep under the write guard,
\* which is dropped where the body of the loop ends.
LoopTailHeld ==
    LET e == remove_elapsed(alarms, now) IN
    /\ s_pc = "tail_held"
    /\ alarms' = e.alarms
    /\ db' = IF e.synced THEN sync(db, e.alarms, "ok") ELSE db
    /\ alarms_changed' = (alarms_changed \/ e.synced)
    /\ unseen' = Sent(unseen, IF e.synced THEN 1 ELSE 0)
    /\ wait_alarm' = ArmWait(e.alarms, now, mono)
    /\ lock' = Release(lock, "loop")
    /\ s_pc' = "select"
    /\ UNCHANGED << poll, logind, inhibitor, rtc, now, mono, last, calls,
                    suspend_stream >>
    /\ UNCHANGED clientVars
    /\ UNCHANGED timerVars

\* A client calls AddAlarm or RemoveAlarm: the method awaits the write lock
\* (lines 248 and 267).
CallStart(c, op, alarm) ==
    /\ calls[c].pc = "idle"
    /\ calls' = [calls EXCEPT ![c] = [pc |-> "write", op |-> op, arg |-> Some(alarm)]]
    /\ lock' = Enqueue(lock, c, "write")
    /\ UNCHANGED << alarms, db, alarms_changed, unseen, wait_alarm, poll, logind,
                    inhibitor, rtc, now, mono, last, s_pc, suspend_stream >>
    /\ UNCHANGED clientVars
    /\ UNCHANGED timerVars

\* The call is given the lock it waits for.
CallAcquire(c) ==
    /\ calls[c].pc \in { "write", "schedule_nearest" }
    /\ CanTake(lock, c)
    /\ lock' = Take(lock)
    /\ calls' = [calls EXCEPT ![c].pc = IF @ = "write" THEN "write_held"
                                         ELSE "schedule_nearest_held"]
    /\ UNCHANGED << alarms, db, alarms_changed, unseen, wait_alarm, poll, logind,
                    inhibitor, rtc, now, mono, last, s_pc, suspend_stream >>
    /\ UNCHANGED clientVars
    /\ UNCHANGED timerVars

\* Lines 247-259 of add_alarm: Store::add under the write guard, which the
\* block drops; an error returns, otherwise schedule_nearest awaits the read
\* lock.
CallAdd(c) ==
    LET r == add(alarms, calls[c].arg[1]) IN
    /\ calls[c].pc = "write_held"
    /\ calls[c].op = "add_alarm"
    /\ IF ~r.ret
       THEN /\ lock' = Release(lock, c)
            /\ calls' = [calls EXCEPT ![c] = [pc |-> "idle", op |-> "none", arg |-> None]]
            /\ UNCHANGED << alarms, db, alarms_changed, unseen >>
       ELSE /\ alarms' = r.alarms
            /\ db' = sync(db, r.alarms, "ok")
            /\ alarms_changed' = TRUE
            /\ unseen' = Sent(unseen, 1)
            /\ lock' = Enqueue(Release(lock, c), c, "read")
            /\ calls' = [calls EXCEPT ![c].pc = "schedule_nearest"]
    /\ UNCHANGED << wait_alarm, poll, logind, inhibitor, rtc, now, mono, last,
                    s_pc, suspend_stream >>
    /\ UNCHANGED clientVars
    /\ UNCHANGED timerVars

\* Lines 266-305 of remove_alarm: Store::remove under the write guard, which
\* the block drops; then the register is compared and cleared without the
\* lock, and schedule_nearest awaits the read lock.
CallRemove(c) ==
    LET r == remove(alarms, calls[c].arg[1].id)
        wakeup == get_wakeup(rtc, TRUE).wakeup
    IN  /\ calls[c].pc = "write_held"
        /\ calls[c].op = "remove_alarm"
        /\ IF r.removed = None
           THEN /\ lock' = Release(lock, c)
                /\ calls' = [calls EXCEPT ![c] = [pc |-> "idle", op |-> "none", arg |-> None]]
                /\ UNCHANGED << alarms, db, alarms_changed, unseen, rtc >>
           ELSE /\ alarms' = r.alarms
                /\ db' = sync(db, r.alarms, "ok")
                /\ alarms_changed' = TRUE
                /\ unseen' = Sent(unseen, 1)
                /\ IF wakeup = None \/ wakeup[1] # r.removed[1].unix_time
                   THEN /\ lock' = Release(lock, c)
                        /\ calls' = [calls EXCEPT ![c] = [pc |-> "idle", op |-> "none", arg |-> None]]
                        /\ rtc' = rtc
                   ELSE /\ lock' = Enqueue(Release(lock, c), c, "read")
                        /\ calls' = [calls EXCEPT ![c].pc = "schedule_nearest"]
                        /\ rtc' = clear_wakeup(rtc, TRUE)
        /\ UNCHANGED << wait_alarm, poll, logind, inhibitor, now, mono, last,
                        s_pc, suspend_stream >>
        /\ UNCHANGED clientVars
        /\ UNCHANGED timerVars

\* Lines 212-239: schedule_nearest under the read guard, dropped when it
\* returns; the method returns Ok.
CallScheduleNearest(c) ==
    /\ calls[c].pc = "schedule_nearest_held"
    /\ rtc' = schedule_nearest(alarms, rtc, now, TRUE, TRUE).rtc
    /\ lock' = Release(lock, c)
    /\ calls' = [calls EXCEPT ![c] = [pc |-> "idle", op |-> "none", arg |-> None]]
    /\ UNCHANGED << alarms, db, alarms_changed, unseen, wait_alarm, poll, logind,
                    inhibitor, now, mono, last, s_pc, suspend_stream >>
    /\ UNCHANGED clientVars
    /\ UNCHANGED timerVars

\* What the loop does once an event has woken it.
LoopRuns ==
    \/ LoopAcquire
    \/ LoopEmit
    \/ LoopRemoveElapsed
    \/ LoopScheduleNearest
    \/ LoopTailHeld

\* What a method call does once it has been made.
CallRuns(c) ==
    \/ CallAcquire(c)
    \/ CallAdd(c)
    \/ CallRemove(c)
    \/ CallScheduleNearest(c)

NextLock ==
    \/ LockAlarmsChanged
    \/ LockWaitExpired
    \/ LockSuspend
    \/ \E acquired \in BOOLEAN : LockResume(acquired)
    \/ LoopRuns
    \* c1 passes an alarm that is still to ring, c2 one that has elapsed
    \/ \E c \in Callers, op \in { "add_alarm", "remove_alarm" } :
            CallStart(c, op, IF c = "c1" THEN Alarm("a", TimeAt(1), Step)
                                         ELSE Alarm("b", TimeAt(0), 0))
    \/ \E c \in Callers : CallRuns(c)

\* The runtime does not idle while a task (the loop after an event, or a
\* method call) can go on; which one it polls is left open.
FairLock ==
    /\ InitStream
    /\ [][NextLock]_vars
    /\ WF_vars(LoopRuns \/ \E c \in Callers : CallRuns(c))

(***************************************************************************)
(* Properties.                                                             *)
(***************************************************************************)
Min(S) == CHOOSE x \in S : \A y \in S : x <= y

Range(seq) == { seq[i] : i \in 1..Len(seq) }

\* unix_time of the Store's alarms that are later than the current time.
FutureTimes == { x.unix_time : x \in { y \in Range(alarms) : y.unix_time > unix_now(now) } }

\* unix_time of the Store's alarms that are not elapsed.
LiveTimes == { x.unix_time : x \in { y \in Range(alarms) : NotElapsed(y, now) } }

\* C1: when on_suspend has finished without an RTC error and the Store holds
\* an alarm later than the current time, the register holds an enabled wakeup
\* later than the current time and not later than the earliest such alarm.
WakeupCoversNextAlarmAfterSuspend ==
    (last.op = "on_suspend" /\ last.ret = "ok" /\ FutureTimes # {})
        => /\ rtc.enabled
           /\ StagedInstant(rtc) > unix_now(now)
           /\ StagedInstant(rtc) <= Min(FutureTimes)

\* C2: whenever the Store has an alarm that is not elapsed, the staged wakeup
\* time is at most the unix_time of the nearest such alarm.
StagedAtMostNearestAlarm ==
    LiveTimes # {} => (rtc.enabled /\ StagedInstant(rtc) <= Min(LiveTimes))

\* C3: a call of schedule_nearest (from on_suspend or from a successful
\* add_alarm) never moves a staged wakeup that has not elapsed to a later
\* time, also when another program staged it or the register cannot be read.
StagedNeverMovesLater ==
    [][ ( /\ \/ last'.op = "on_suspend"
             \/ (last'.op = "add_alarm" /\ last'.ret = "ok")
          /\ rtc.enabled
          /\ StagedInstant(rtc) > unix_now(now) )
        => (rtc'.enabled /\ StagedInstant(rtc') <= StagedInstant(rtc)) ]_vars

\* C4: every alarm that is in the client's snapshot when the wall clock
\* reaches its unix_time is eventually rung.
DueInSnapshot(x) ==
    c_pc # "off" /\ x \in Range(c_alarms) /\ unix_now(now) = x.unix_time

WasRung(x) == rung[x.id] > 0

EveryDueAlarmIsRung == \A x \in AlarmInputs : DueInSnapshot(x) ~> WasRung(x)

\* C5: while the client waits for an alarm, its wait is over as soon as the
\* wall clock has reached the alarm's unix_time.
WaitFollowsWallClock ==
    (c_pc = "select" /\ c_next # None /\ unix_now(now) >= c_next[1].unix_time)
        => mono >= c_sleep

\* C6: no two alarms in the Store have the same id.
NoDuplicateIds ==
    \A i, j \in 1..Len(alarms) : i # j => alarms[i].id # alarms[j].id

\* A duplicate add was just turned down by a Store holding two alarms.
DuplicateTurnedDown ==
    last.op = "add" /\ last.ret = "false" /\ Len(alarms) = 2

\* C7: upcoming() returns the alarm with the least unix_time among the alarms
\* that are not elapsed, and none when every alarm is elapsed.
UpcomingIsNearestNotElapsed ==
    LET live == { x \in Range(alarms) : NotElapsed(x, now) }
        next == upcoming(alarms)
    IN  IF live = {} THEN next = None
        ELSE /\ next # None
             /\ next[1] \in live
             /\ \A x \in live : next[1].unix_time <= x.unix_time

\* C8: add_alarm with an id that is in the Store returns already-exists
\* (Store::add returns false) and leaves the Store, the file, the change
\* notification and the register as they were.
DuplicateAddRejected ==
    [][ last'.op = "add_alarm" =>
          \A alarm \in AlarmInputs :
            (\E x \in Range(alarms) : x.id = alarm.id)
            => \/ /\ last'.ret = "already_exists"
                  /\ last'.synced = 0
                  /\ alarms' = alarms
                  /\ db' = db
                  /\ alarms_changed' = alarms_changed
                  /\ rtc' = rtc
                  /\ ~add(alarms, alarm).ret
               \/ ~add_alarm(alarm, Faults, "ok") ]_vars

\* add_alarm has just returned already-exists while a wakeup is staged.
AlreadyExistsReturned ==
    /\ last.op = "add_alarm"
    /\ last.ret = "already_exists"
    /\ alarms # << >>
    /\ rtc.enabled

\* C9: Store::remove of a present id takes out and returns exactly that
\* alarm, keeps the others, rewrites the file and notifies; of an unknown id
\* it returns none and changes nothing.
RemoveTakesExactlyOne ==
    [][ \A id \in Ids, w \in SyncOutcomes :
            StoreRemove(id, w)
            => IF \E x \in Range(alarms) : x.id = id
               THEN LET keep(x) == x.id # id IN
                    /\ last'.ret = "some"
                    /\ Len(last'.removed) = 1
                    /\ last'.removed[1] \in Range(alarms)
                    /\ last'.removed[1].id = id
                    /\ Len(alarms') = Len(alarms) - 1
                    /\ alarms' = SelectSeq(alarms, keep)
                    /\ last'.synced = 1
                    /\ alarms_changed'
                    /\ (w = "ok" => db' = Some(to_string(alarms')))
               ELSE /\ last'.ret = "none"
                    /\ last'.removed = None
                    /\ last'.synced = 0
                    /\ alarms' = alarms
                    /\ db' = db
                    /\ alarms_changed' = alarms_changed ]_vars

\* Store::remove has just returned one of two alarms.
RemovedOneOfTwo ==
    /\ last.op = "remove"
    /\ last.ret = "some"
    /\ Len(alarms) = 1
    /\ alarms[1].id # last.removed[1].id

\* C10: remove_elapsed takes out exactly the alarms with unix_time +
\* ring_seconds <= now, returns their number, and rewrites the file and
\* notifies if and only if that number is not zero.
RemoveElapsedExact ==
    [][ \A w \in SyncOutcomes :
            StoreRemoveElapsed(w)
            => LET keep(x) == x.unix_time + x.ring_seconds > unix_now(now)
                   gone == { i \in 1..Len(alarms) :
                               alarms[i].unix_time + alarms[i].ring_seconds
                                   <= unix_now(now) }
               IN  /\ alarms' = SelectSeq(alarms, keep)
                   /\ last'.count = Cardinality(gone)
                   /\ IF gone # {}
                      THEN /\ last'.synced = 1
                           /\ alarms_changed'
                           /\ (w = "ok" => db' = Some(to_string(alarms')))
                      ELSE /\ last'.synced = 0
                           /\ db' = db
                           /\ alarms_changed' = alarms_changed ]_vars

\* remove_elapsed has just taken out one alarm and kept another.
ElapsedRemovedOtherKept ==
    /\ last.op = "remove_elapsed"
    /\ last.count = 1
    /\ Len(alarms) = 1

\* C11: a subscriber is notified of a mutation only when the file holds the
\* snapshot of that mutation: while a notification is pending for the
\* receiver, the file holds the serialized alarm list of the Store.
NotifiedOnlyWhenWritten ==
    alarms_changed => db = Some(to_string(alarms))

\* C12: every resolution of the receiver's changed() accounts for exactly
\* one mutation, so that k mutations give k resolutions: a resolution leaves
\* pending whatever was sent beyond the first unseen notification.
ResolvesOncePerMutation ==
    [][ last'.op = "changed" => unseen' >= unseen - 1 ]_vars

\* C13: while the file writes succeed, a Store constructed from the file
\* holds exactly the alarms of the Store in memory.
FileIsSnapshotOfStore ==
    /\ Store_new(db).ok
    /\ Store_new(db).alarms = alarms

\* Two alarms were added, the later one first, and written to the file.
TwoAlarmsWrittenLaterFirst ==
    /\ last.op = "add"
    /\ last.synced = 1
    /\ Len(alarms) = 2
    /\ alarms[1].unix_time > alarms[2].unix_time
    /\ db # None

\* C14: the daemon started on a missing (empty) file or on a file whose
\* content is not an alarm list (malformed text, bytes that are not text)
\* has an empty Store and serves.
StartsEmptyOnBadFile ==
    (last.op = "launch" /\ db \in { None, Malformed, NotText })
        => (Serving /\ alarms = << >>)

OnlyServiceOutcomes ==
    [][ /\ last'.op = "add_alarm"
            => /\ last'.ret \in { "ok", "already_exists" }
               /\ last'.ret # "ok" => alarms' = alarms
        /\ last'.op = "remove_alarm"
            => /\ last'.ret \in { "ok", "not_found" }
               /\ last'.ret # "ok" => alarms' = alarms ]_vars

\* C16: sleep_until does not return success while the clock is before the
\* target, whatever signals arrive, and once the clock has reached the
\* target the call returns.
SleepReturnsAtTarget ==
    /\ [](t_pc = "ok" => t_clock >= t_target)
    /\ (t_clock >= t_target) ~> (t_pc \in { "ok", "err" })

\* The call returned success after it was woken early and armed a second
\* timer.
ReturnedAfterRearm ==
    /\ t_pc = "ok"
    /\ t_made = 2
    /\ t_target > 0

\* C17: called with a target before the time of the call, sleep_until
\* returns success and no kernel timer is created or armed.
PastTargetSucceedsAtOnce ==
    t_target < 0
        => /\ t_pc \in { "start", "loop", "ok" }
           /\ t_made = 0
           /\ t_live = 0
           /\ t_timer = None

\* C17 as amended: called with a target before the time of the call,
\* sleep_until returns without a wait, with success or with the error of
\* registering the signal handler, and no kernel timer is created or armed.
PastTargetReturnsAtOnce ==
    t_target < 0
        => /\ t_pc \in { "start", "loop", "ok", "err" }
           /\ t_pc = "err" => t_fault = "signal"
           /\ t_made = 0
           /\ t_live = 0
           /\ t_timer = None

\* The call with a past target has returned success.
PastTargetReturned ==
    /\ t_target < 0
    /\ t_pc = "ok"

\* C18: when the wait is over (it returned or was abandoned) and no
\* timer_delete failed, every kernel timer that was created has been
\* deleted, and none was deleted twice.
EveryTimerDeletedOnce ==
    (t_pc \in { "ok", "err", "dropped" } /\ t_fault # "delete")
        => (t_live = 0 /\ ~t_twice)

\* C19: after a system call of sleep_until has failed the call has returned
\* an error: it neither waits on nor returns success.
FailureEndsTheWait ==
    t_fault # "none" => t_pc = "err"

\* timer_settime failed, the timer was deleted and the call returned an error.
ArmingFailedTimerDeleted ==
    /\ t_pc = "err"
    /\ t_fault = "arm"
    /\ t_made > 0
    /\ t_live = 0

\* C21: get_wakeup after set_wakeup(t) returns the instant t, for every
\* instant t of the grid (they fall in different months and on different
\* days), whatever the register held before.
RegisterRoundTrip ==
    \A t \in Instants :
        get_wakeup(set_wakeup(rtc, t, TRUE), TRUE).wakeup = Some(t)

\* C22: an alarm whose ring_seconds is the maximum leaves the Store only through
\* Store::remove, whatever the clock shows.
ForeverAlarmOnlyRemovedExplicitly ==
    [][ \A x \in Range(alarms) :
            (x.ring_seconds = RING_MAX /\ x \notin Range(alarms'))
                => last'.op = "remove" ]_vars

\* The Store holds an alarm whose unix_time + ring_seconds is reached.
HoldsElapsed == \E x \in Range(alarms) : ~NotElapsed(x, now)

\* C23: an alarm of the Store whose unix_time + ring_seconds is reached is
\* eventually taken out of the Store, when the clock goes on, the loop goes
\* on running, no client calls and no suspend event arrives.  No alarm is
\* added and the clock does not go back, so that the elapsed alarms of a
\* state are all taken out exactly when a later state holds none.
ElapsedAlarmsAreRemoved == HoldsElapsed ~> ~HoldsElapsed

\* C24: a call of remove_elapsed that directly follows another one, with the
\* clock unchanged, takes nothing out, returns 0, does not rewrite the file
\* and sends no notification.
RemoveElapsedIdempotent ==
    [][ (last.op = "remove_elapsed" /\ StoreRemoveElapsed("ok"))
            => /\ last'.count = 0
               /\ last'.synced = 0
               /\ alarms' = alarms
               /\ db' = db
               /\ alarms_changed' = alarms_changed
               /\ unseen' = unseen ]_vars

\* remove_elapsed was called twice in a row while the Store holds an alarm
\* and the change of the first call is still unseen.
RemoveElapsedCalledAgain ==
    /\ last.op = "remove_elapsed"
    /\ last.ret = "again"
    /\ alarms # << >>
    /\ alarms_changed
    /\ now > 0

\* C25: the handling of await_suspend returning true runs remove_elapsed,
\* then the staging attempt, then the release of the lease: the staging
\* attempt starts only after remove_elapsed, the release only after the
\* staging attempt has completed, and the lease is dropped by no other step.
SuspendStepsInOrder ==
    [][ /\ (inhibitor /\ ~inhibitor')
                => (s_pc = "take" /\ s_pc' = "tail")
        /\ (s_pc # "take" /\ s_pc' = "take")
                => /\ s_pc = "schedule_nearest"
                   /\ last'.op = "on_suspend"
                   /\ last'.ret \in { "staged", "rtc_failed" }
        /\ (s_pc # "schedule_nearest" /\ s_pc' = "schedule_nearest")
                => /\ s_pc = "select"
                   /\ last'.op = "on_suspend"
                   /\ last'.ret = "remove_elapsed"
                   /\ alarms' = remove_elapsed(alarms, now).alarms ]_vars

\* on_suspend has run remove_elapsed, has left a wakeup staged for a Store
\* that holds an alarm, and has then released the lease that was held.
LeaseReleasedAfterStaging ==
    /\ s_pc = "tail"
    /\ last.op = "on_suspend"
    /\ last.ret = "released"
    /\ rtc.enabled
    /\ alarms # << >>
    /\ now > 0

\* C26: remove_alarm of an alarm whose unix_time is the staged wakeup time
\* leaves the register staged at the unix_time of the nearest alarm that is
\* left, or disabled (the cleared record) when none is left.
RemoveRestagesNearest ==
    [][ \A id \in Ids :
            LET r == remove(alarms, id) IN
            ( /\ r.removed # None
              /\ rtc.enabled
              /\ StagedInstant(rtc) = r.removed[1].unix_time
              /\ remove_alarm(id, NoFaults, "ok") )
            => rtc' = IF r.alarms = << >> THEN RESET_ALARM
                      ELSE RtcWkalmFrom(upcoming(r.alarms)[1].unix_time) ]_vars

\* C27: remove_alarm of an alarm whose unix_time is not the staged wakeup
\* time (another time is staged, or none) leaves the register as it was.
RemoveKeepsOtherWakeup ==
    [][ \A id \in Ids :
            LET r == remove(alarms, id) IN
            ( /\ r.removed # None
              /\ ~(rtc.enabled /\ StagedInstant(rtc) = r.removed[1].unix_time)
              /\ remove_alarm(id, NoFaults, "ok") )
            => rtc' = rtc ]_vars

\* C28: get_wakeup after clear_wakeup returns none, whatever the register
\* held, and goes on returning none while the register holds the record that
\* clear_wakeup wrote.
ClearedRegisterReadsNone ==
    /\ get_wakeup(clear_wakeup(rtc, TRUE), TRUE) = [ok |-> TRUE, wakeup |-> None]
    /\ rtc = clear_wakeup(rtc, TRUE) => get_wakeup(rtc, TRUE).wakeup = None

\* remove_alarm has cleared the register, and no alarm was left to stage.
RegisterCleared ==
    /\ last.op = "remove_alarm"
    /\ last.ret = "ok"
    /\ rtc = RESET_ALARM
    /\ alarms = << >>

\* C29: without logind the register is staged for the nearest alarm of the
\* Store before more than one update interval has passed since the launch,
\* also when clients change the Store within that interval.
StagedWithinInterval ==
    (~logind /\ alarms # << >> /\ mono > MANUAL_UPDATE_INTERVAL) => rtc.enabled

\* The call of sleep_until has no listener yet: it is before line 85, or
\* signal() has failed there.
NoListener == t_pc = "start" \/ (t_pc = "err" /\ t_fault = "signal")

\* C30: sleep_until creates and arms a timer only at line 95, which it
\* reaches with the listener of line 85 installed; while the call has no
\* listener no timer of the call exists, and no step that leaves the call
\* without a listener raises the signal.
ListenerBeforeTimer ==
    [][ /\ (t_made' # t_made \/ t_live' > t_live
                \/ (t_timer' # None /\ t_timer' # t_timer))
            => (t_pc = "arm" /\ ~NoListener)
        /\ NoListener' => (t_made' = 0 /\ t_live' = 0 /\ t_timer' = None /\ ~t_sig') ]_vars

\* The timer that the call armed has expired and its signal waits for the
\* listener at line 98.
TimerSignalQueued ==
    /\ t_pc = "await"
    /\ t_sig
    /\ t_timer = None
    /\ t_made = 1
    /\ t_live = 1
    /\ t_clock >= t_target

\* The branches of the select: the value of last.op after an iteration.
LoopOps == { "alarms_changed", "wait_alarm", "on_suspend", "add_logind_inhibitor" }

\* C31: after every iteration of the loop, whichever branch fired, the Store
\* holds no alarm that had elapsed at the time remove_elapsed ran, and the
\* sleep armed for the next select ends at the end of the upcoming() alarm
\* of that Store (it does not end when the Store is empty).
IterationCleansAndRearms ==
    [][ last'.op \in LoopOps =>
            /\ \A x \in Range(alarms') : NotElapsed(x, now)
            /\ alarms' = << >> => wait_alarm' = None
            /\ alarms' # << >> =>
                    LET x == upcoming(alarms')[1] IN
                    wait_alarm' = Some(mono' + x.unix_time + x.ring_seconds
                                            - unix_now(now')) ]_vars

\* C32: left alone (no client call, nothing more from logind, the clock
\* standing still) the loop comes to wait at the select with no branch ready.
QuietLoopBlocks == <>Blocked

\* C33: no alarm is rung more than once, and the alarm the client waits for
\* at its select is never one it has rung: after the ring next_alarm passes
\* the rung alarm over, with the old snapshot as with a new one.
RungAlarmForgotten ==
    /\ \A id \in Ids : rung[id] <= 1
    /\ (c_pc = "select" /\ c_next # None) => rung[c_next[1].id] = 0

\* The client is back at its select after a ring: the alarm it rang is
\* still in its snapshot, and it is not the alarm the client waits for.
RungAlarmStillInSnapshot ==
    /\ c_pc = "select"
    /\ \E x \in Range(c_alarms) :
            /\ rung[x.id] = 1
            /\ x.unix_time <= unix_now(now)
            /\ c_next # Some(x)

\* C34: a step of the client loop (the end of its wait, the start and the
\* end of a ring, a new snapshot) leaves the Store, its file and its change
\* channel as they are, and an alarm leaves the Store only in a remove_alarm
\* call or in a remove_elapsed of the daemon loop.
RingLeavesStore ==
    [][ /\ << c_alarms, c_next, c_pc, c_sleep, rung >>'
                # << c_alarms, c_next, c_pc, c_sleep, rung >>
            => UNCHANGED << alarms, db, alarms_changed, unseen, rtc, last >>
        /\ (\E x \in Range(alarms) : x \notin Range(alarms'))
            => \/ last'.op = "remove_alarm" /\ last'.ret # "not_found"
               \/ last'.op \in LoopOps /\ last'.count > 0 ]_vars

\* The ring of an alarm is over and the alarm is still in the Store.
RungAlarmStillStored ==
    /\ c_pc = "select"
    /\ \E x \in Range(alarms) : rung[x.id] = 1 /\ x \in Range(c_alarms)

\* C35: once the Store has stopped changing, the snapshot of the running
\* client comes to hold the alarms of the Store, and goes on holding them.
SnapshotCatchesUp == <>[](Range(c_alarms) = Range(alarms))

\* C36: an iteration in which inhibit fails leaves the lease as it was, held
\* or not, leaves the register alone and runs its tail; the suspend-prepare
\* event that the loop takes next is handled by on_suspend, which leaves a
\* wakeup staged when the Store holds an alarm.
InhibitFailureAbsorbed ==
    [][ /\ (last'.op = "add_logind_inhibitor" /\ last'.ret = "inhibit_failed")
            => /\ inhibitor' = inhibitor
               /\ rtc' = rtc
               /\ alarms' = remove_elapsed(alarms, now).alarms
               /\ wait_alarm' = ArmWait(alarms', now, mono)
        /\ (last.op = "add_logind_inhibitor" /\ last.ret = "inhibit_failed"
                /\ last'.op = "on_suspend")
            => /\ last'.ret = "ok"
               /\ ~inhibitor'
               /\ alarms' # << >> => rtc'.enabled ]_vars

\* inhibit has failed while the Store holds an alarm for which no wakeup is
\* staged, and the next message of the stream is PrepareForSleep(true).
InhibitFailedSuspendPending ==
    /\ last.op = "add_logind_inhibitor"
    /\ last.ret = "inhibit_failed"
    /\ alarms # << >>
    /\ ~rtc.enabled
    /\ suspend_stream # << >>
    /\ Head(suspend_stream) = "suspend"

\* C37: a call of Store::add or Store::remove that reaches sync keeps its
\* change of the alarm list, sends the notification and returns true (the
\* removed alarm) whether the file was written or not; the file then holds
\* the new list, or what it held before, or nothing.
FailedWriteKeepsMutation ==
    [][ (last'.op \in { "add", "remove" } /\ last'.synced = 1) =>
            /\ alarms_changed'
            /\ unseen' >= 1
            /\ db' \in { Some(to_string(alarms')), db, None }
            /\ last'.op = "add" =>
                    /\ last'.ret = "true"
                    /\ Len(alarms') = Len(alarms) + 1
                    /\ SubSeq(alarms', 1, Len(alarms)) = alarms
            /\ last'.op = "remove" =>
                    /\ last'.ret = "some"
                    /\ Len(last'.removed) = 1
                    /\ Len(alarms') = Len(alarms) - 1
                    /\ last'.removed[1] \in Range(alarms) \ Range(alarms') ]_vars

\* An alarm was added to a Store whose file could not be written: the list
\* in memory holds it, the receiver has a change to see, and a Store
\* constructed from the file would not hold it.
AddedButNotWritten ==
    /\ last.op = "add"
    /\ last.ret = "true"
    /\ alarms_changed
    /\ alarms # << >>
    /\ Store_new(db).alarms # alarms

\* C38: an iteration of the alarms_changed or wait_alarm branch, a client
\* call and the clock leave the messages of the stream as they are; an
\* iteration of the suspend branch takes the message at the head of the
\* stream, handles it as await_suspend reads it, and leaves the others in
\* their order; a message from logind joins at the end; and while a message
\* waits the loop is not blocked.
SuspendEventsInOrder ==
    [][ /\ last'.op \in { "alarms_changed", "wait_alarm", "add_alarm", "clock" }
            => suspend_stream' = suspend_stream
        /\ last'.op \in { "on_suspend", "add_logind_inhibitor" }
            => /\ suspend_stream # << >>
               /\ suspend_stream' = StreamRest(suspend_stream)
               /\ last'.op = IF await_suspend(Head(suspend_stream))
                             THEN "on_suspend" ELSE "add_logind_inhibitor"
        /\ last'.op = "logind"
            => /\ Len(suspend_stream') = Len(suspend_stream) + 1
               /\ SubSeq(suspend_stream', 1, Len(suspend_stream)) = suspend_stream
        /\ suspend_stream' # << >> => ~Blocked' ]_vars

\* The alarms_changed or wait_alarm branch has won the select while
\* PrepareForSleep(true) and then PrepareForSleep(false) waited in the
\* stream.
OtherBranchWonEventsPending ==
    /\ last.op \in { "alarms_changed", "wait_alarm" }
    /\ suspend_stream = << "suspend", "resume" >>
    /\ alarms # << >>

\* p holds a guard of the lock.
Holds(l, p) == l.writer = Some(p) \/ p \in l.readers

\* A method call of c is under way.
CallPending(c) == calls[c].pc # "idle"

\* C39: the loop holds no guard of the Store lock while it waits at select, a
\* method call holds none while it waits (for the lock) or after it has
\* returned, whenever somebody waits for the lock some task can go on, and
\* every method call that was made returns.
CallsGetTheLock ==
    /\ [](s_pc = "select" => ~Holds(lock, "loop"))
    /\ [](\A c \in Callers :
            calls[c].pc \in { "idle", "write", "schedule_nearest" }
                => ~Holds(lock, c))
    /\ [](lock.queue # << >> =>
            \/ CanTake(lock, Head(lock.queue)[1])
            \/ s_pc \in { "alarms_changed_held", "on_suspend_held",
                          "schedule_nearest_held", "tail_held" }
            \/ \E c \in Callers :
                    calls[c].pc \in { "write_held", "schedule_nearest_held" })
    /\ CallPending("c1") ~> ~CallPending("c1")
    /\ CallPending("c2") ~> ~CallPending("c2")

\* Both method calls wait for the lock while the loop holds its write guard.
CallsWaitBehindLoop ==
    /\ lock.writer = Some("loop")
    /\ Len(lock.queue) = 2
    /\ CallPending("c1") /\ CallPending("c2")

====
